---- MODULE Spec2Model ----
(***************************************************************************)
(* A model of yandex_mcp.py: the shared client (YandexAPIClient), the      *)
(* error classifier (_handle_api_error), the response formatters and the   *)
(* catalogue of tool operations.                                           *)
(*                                                                         *)
(* Text is modelled as TLA+ strings; a multi-line text is the sequence of  *)
(* its lines (the text split on "\n").  A JSON object is a function from   *)
(* its keys; a JSON array is a sequence.                                   *)
(***************************************************************************)
EXTENDS Integers, Sequences, FiniteSets, TLC

VARIABLES
    direct_token,    \* api_client.direct_token
    metrika_token,   \* api_client.metrika_token
    unified_token,   \* api_client.unified_token
    client_login,    \* api_client.client_login
    use_sandbox,     \* api_client.use_sandbox
    pc,              \* position of the invocation: "idle", "await", "done"
    op,              \* the operation invoked
    params,          \* its validated input
    sent,            \* the network requests sent during the invocation
    conn,            \* the invocation's httpx.AsyncClient: "none", "open", "closed"
    resp,            \* the vendor outcome the invocation received
    ret,             \* what the operation returned
    fpc,             \* pure-function checks: "in", "out"
    fin,             \* pure-function checks: the input; concurrent invocations:
                     \* the local variable holding the response in each frame
    fout             \* pure-function checks: the output

vars == <<direct_token, metrika_token, unified_token, client_login, use_sandbox,
          pc, op, params, sent, conn, resp, ret, fpc, fin, fout>>

credVars == <<direct_token, metrika_token, unified_token, client_login, use_sandbox>>
callVars == <<pc, op, params, sent, conn, resp, ret>>
funVars == <<fpc, fin, fout>>

(***************************************************************************)
(* Text helpers                                                            *)
(***************************************************************************)

\* s starts with the prefix p.
StartsWith(s, p) == Len(s) >= Len(p) /\ SubSeq(s, 1, Len(p)) = p

RECURSIVE LStrip(_)
LStrip(s) == IF Len(s) > 0 /\ SubSeq(s, 1, 1) = " " THEN LStrip(SubSeq(s, 2, Len(s))) ELSE s

RECURSIVE RStrip(_)
RStrip(s) ==
    IF Len(s) > 0 /\ SubSeq(s, Len(s), Len(s)) = " " THEN RStrip(SubSeq(s, 1, Len(s) - 1)) ELSE s

\* str.strip()
Strip(s) == RStrip(LStrip(s))

\* sep.join(parts)
RECURSIVE Join(_, _)
Join(parts, sep) ==
    IF Len(parts) = 0 THEN ""
    ELSE IF Len(parts) = 1 THEN parts[1]
    ELSE parts[1] \o sep \o Join(Tail(parts), sep)

\* dict.get(key, default)
Get(obj, key, default) == IF key \in DOMAIN obj THEN obj[key] ELSE default

\* {}
EmptyObj == [k \in {} |-> 0]

(***************************************************************************)
(* Exceptions.  An exception is a record with its class name (type) and    *)
(* its message; an httpx.HTTPStatusError also carries the response.        *)
(***************************************************************************)

\* isinstance(e, ValueError): json.JSONDecodeError is a subclass of ValueError.
IsValueError(e) == e.type \in {"ValueError", "JSONDecodeError"}

\* isinstance(e, httpx.TimeoutException)
IsTimeoutException(e) ==
    e.type \in {"TimeoutException", "ConnectTimeout", "ReadTimeout", "WriteTimeout", "PoolTimeout"}

HTTPStatusError(status, body) ==
    [type |-> "HTTPStatusError", msg |-> "status " \o ToString(status),
     status |-> status, body |-> body]

Exc(type, msg) == [type |-> type, msg |-> msg]

JSONDecodeError == Exc("JSONDecodeError", "Expecting value: line 1 column 1 (char 0)")

(***************************************************************************)
(* Response bodies.  shape is "notjson" (response.json() raises),          *)
(* "nonobject" (JSON that is not an object, e.g. a list) or "object"       *)
(* (obj holds the object).  A value of an "error" key is tagged: t = "str" *)
(* for a JSON string, t = "dict" for an object d.                          *)
(***************************************************************************)

NotJson == [shape |-> "notjson"]
NonObject == [shape |-> "nonobject"]
Object(o) == [shape |-> "object", obj |-> o]

(***************************************************************************)
(* _handle_api_error                                                       *)
(***************************************************************************)

\* The dictionary error_messages with its default.
ErrorMessage_Missing429(status) ==
    CASE status = 400 -> "Bad request. Check your parameters."
      [] status = 401 -> "Authentication failed. Check your API token."
      [] status = 403 -> "Access denied. Check permissions for this operation."
      [] status = 404 -> "Resource not found. Check the ID."
      [] status = 500 -> "Server error. Try again later."
      [] status = 503 -> "Service unavailable. Try again later."
      [] OTHER -> "Request failed with status " \o ToString(status)

ErrorMessage(status) ==
    CASE status = 400 -> "Bad request. Check your parameters."
      [] status = 401 -> "Authentication failed. Check your API token."
      [] status = 403 -> "Access denied. Check permissions for this operation."
      [] status = 404 -> "Resource not found. Check the ID."
      [] status = 429 -> "Rate limit exceeded. Wait before making more requests."
      [] status = 500 -> "Server error. Try again later."
      [] status = 503 -> "Service unavailable. Try again later."
      [] OTHER -> "Request failed with status " \o ToString(status)

\* The body of the try block: "return" with the text, "raise", or "fall"
\* through to the statements after the try.
ParseVendorError(status, body) ==
    IF body.shape = "notjson" THEN [kind |-> "raise", exc |-> JSONDecodeError]
    ELSE IF body.shape = "nonobject"
    THEN [kind |-> "raise",
          exc |-> Exc("AttributeError", "'list' object has no attribute 'get'")]
    ELSE LET err == Get(body.obj, "error", [t |-> "dict", d |-> EmptyObj])
         IN IF err.t # "dict"
            THEN [kind |-> "raise",
                  exc |-> Exc("AttributeError", "'str' object has no attribute 'get'")]
            ELSE LET error_msg == Get(err.d, "error_string", "")
                     error_detail == Get(err.d, "error_detail", "")
                 IN IF error_msg # ""
                    THEN [kind |-> "return",
                          text |-> Strip("API Error (" \o ToString(status) \o "): "
                                         \o error_msg \o ". " \o error_detail)]
                    ELSE [kind |-> "fall"]

\* except Exception: pass
ExceptPass_Propagate(t) == t

ExceptPass(t) == IF t.kind = "raise" THEN [kind |-> "fall"] ELSE t

\* The classifier's outcome: raised is TRUE when an exception leaves it.
handle_api_error(e) ==
    IF e.type = "HTTPStatusError"
    THEN LET t == ExceptPass(ParseVendorError(e.status, e.body))
         IN CASE t.kind = "return" -> [raised |-> FALSE, value |-> t.text]
              [] t.kind = "raise" -> [raised |-> TRUE, exc |-> t.exc]
              [] OTHER -> [raised |-> FALSE,
                           value |-> "API Error: " \o ErrorMessage(e.status)]
    ELSE IF IsTimeoutException(e)
    THEN [raised |-> FALSE,
          value |-> "Request timed out. The operation may still complete on the server."]
    ELSE IF IsValueError(e)
    THEN [raised |-> FALSE, value |-> "Configuration Error: " \o e.msg]
    ELSE [raised |-> FALSE, value |-> "Unexpected error: " \o e.type \o ": " \o e.msg]

(***************************************************************************)
(* Configuration and YandexAPIClient                                       *)
(***************************************************************************)

YANDEX_DIRECT_API_URL == "https://api.direct.yandex.com/json/v5"
YANDEX_DIRECT_API_URL_V501 == "https://api.direct.yandex.com/json/v501"
YANDEX_DIRECT_SANDBOX_URL == "https://api-sandbox.direct.yandex.com/json/v5"
YANDEX_METRIKA_API_URL == "https://api-metrika.yandex.net"

\* DEFAULT_TIMEOUT, and the timeout of the statistics report's own client.
DEFAULT_TIMEOUT == 30
REPORT_TIMEOUT == 120

\* Optional[...] values: None is <<>>, a given value v is <<v>>.
None == <<>>
Some(v) == <<v>>
IsNone(x) == x = <<>>
\* Truthiness of an Optional[str], an Optional[List] and an Optional[float]
\* (a float is held in hundredths).
TruthyStr(x) == x # <<>> /\ x[1] # ""
TruthyList(x) == x # <<>> /\ x[1] # <<>>
TruthyNum(x) == x # <<>> /\ x[1] # 0

\* YandexAPIClient._get_direct_token: self.direct_token or self.unified_token
get_direct_token == IF direct_token # "" THEN direct_token ELSE unified_token

\* The fallback the wrong way round: the unified token wins over the analytics one.
get_metrika_token_UnifiedFirst ==
    IF unified_token # "" THEN unified_token ELSE metrika_token

\* YandexAPIClient._get_metrika_token
get_metrika_token == IF metrika_token # "" THEN metrika_token ELSE unified_token

\* The choice the wrong way round: the alternate version wins over the sandbox.
get_direct_url_VersionFirst(use_v501) ==
    IF use_v501 THEN YANDEX_DIRECT_API_URL_V501
    ELSE IF use_sandbox THEN YANDEX_DIRECT_SANDBOX_URL ELSE YANDEX_DIRECT_API_URL

\* YandexAPIClient._get_direct_url
get_direct_url(use_v501) ==
    IF use_sandbox THEN YANDEX_DIRECT_SANDBOX_URL
    ELSE IF use_v501 THEN YANDEX_DIRECT_API_URL_V501 ELSE YANDEX_DIRECT_API_URL

\* The part of an operation before its network call ends in one of:
\*   Return(lines)   the operation returns without calling the vendor,
\*   Raise(exc, c)   an exception is raised (c: the state of the connection),
\*   Send(req)       the connection is open and req has been sent.
Return(lines) == [tag |-> "return", form |-> "text", lines |-> lines]
Raise(exc, c) == [tag |-> "raise", exc |-> exc, conn |-> c]
Send(req) == [tag |-> "send", req |-> req]

\* async with httpx.AsyncClient(...) as client: the state of the connection once
\* the block has been left; how is "ok" (its end or a return) or "raise".
AsyncWithExit_LeakOnRaise(how) == IF how = "raise" THEN "open" ELSE "closed"

AsyncWithExit(how) == "closed"

\* YandexAPIClient.direct_request up to the await of client.post.
direct_request_NoTokenCheck(service, method, request_params, use_v501) ==
    Send([api |-> "direct", verb |-> "POST",
          url |-> get_direct_url(use_v501) \o "/" \o service,
          headers |-> ("Authorization" :> ("Bearer " \o get_direct_token))
                      @@ ("Accept-Language" :> "ru")
                      @@ ("Content-Type" :> "application/json"),
          json |-> [method |-> method, params |-> request_params],
          timeout |-> DEFAULT_TIMEOUT])

direct_request(service, method, request_params, use_v501) ==
    LET token == get_direct_token
    IN IF token = ""
       THEN Raise(Exc("ValueError",
                      "Yandex Direct API token not configured. "
                      \o "Set YANDEX_DIRECT_TOKEN or YANDEX_TOKEN environment variable."),
                  "none")
       ELSE LET base == ("Authorization" :> ("Bearer " \o token))
                        @@ ("Accept-Language" :> "ru")
                        @@ ("Content-Type" :> "application/json")
                headers == IF client_login # ""
                           THEN base @@ ("Client-Login" :> client_login)
                           ELSE base
            IN Send([api |-> "direct", verb |-> "POST",
                     url |-> get_direct_url(use_v501) \o "/" \o service,
                     headers |-> headers,
                     json |-> [method |-> method, params |-> request_params],
                     timeout |-> DEFAULT_TIMEOUT])

\* metrika_request sending whatever it is given as a GET, with no check of the
\* method.
metrika_request_AlwaysGet(endpoint, method, query, data) ==
    IF get_metrika_token = ""
    THEN Raise(Exc("ValueError",
                   "Yandex Metrika API token not configured. "
                   \o "Set YANDEX_METRIKA_TOKEN or YANDEX_TOKEN environment variable."),
               "none")
    ELSE Send([api |-> "metrika", verb |-> "GET",
               url |-> YANDEX_METRIKA_API_URL \o endpoint,
               headers |-> ("Authorization" :> ("OAuth " \o get_metrika_token))
                           @@ ("Content-Type" :> "application/json"),
               params |-> query,
               json |-> None,
               timeout |-> DEFAULT_TIMEOUT])

\* YandexAPIClient.metrika_request up to the await of the client call.
metrika_request(endpoint, method, query, data) ==
    LET token == get_metrika_token
    IN IF token = ""
       THEN Raise(Exc("ValueError",
                      "Yandex Metrika API token not configured. "
                      \o "Set YANDEX_METRIKA_TOKEN or YANDEX_TOKEN environment variable."),
                  "none")
       ELSE IF method \notin {"GET", "POST", "PUT", "DELETE"}
       THEN Raise(Exc("ValueError", "Unsupported HTTP method: " \o method),
                  AsyncWithExit("raise"))
       ELSE Send([api |-> "metrika", verb |-> method,
                  url |-> YANDEX_METRIKA_API_URL \o endpoint,
                  headers |-> ("Authorization" :> ("OAuth " \o token))
                              @@ ("Content-Type" :> "application/json"),
                  params |-> query,
                  json |-> IF method \in {"POST", "PUT"} THEN data ELSE None,
                  timeout |-> DEFAULT_TIMEOUT])

\* Response.is_success
Is2xx(status) == status >= 200 /\ status < 300

\* What the awaited call gives the operation: Ok(value) or Fail(exc).
Ok(v) == [tag |-> "ok", value |-> v]
Fail(exc) == [tag |-> "raise", exc |-> exc]

\* The awaited client call itself: a transport failure raises.
AwaitCall(outcome) ==
    CASE outcome.kind = "timeout" -> Fail(Exc("ReadTimeout", "The read operation timed out"))
      [] outcome.kind = "connect_error" -> Fail(Exc("ConnectError", "All connection attempts failed"))
      [] OTHER -> Ok(outcome)

\* response.raise_for_status()
raise_for_status_Never(r) == Ok(r)

raise_for_status(r) ==
    IF Is2xx(r.status) THEN Ok(r) ELSE Fail(HTTPStatusError(r.status, r.body))

\* response.json()
ResponseJson(r) == IF r.body.shape = "notjson" THEN Fail(JSONDecodeError) ELSE Ok(r.body)

\* YandexAPIClient.direct_request from the await on.
direct_response(outcome) ==
    LET a == AwaitCall(outcome)
    IN IF a.tag = "raise" THEN a
       ELSE LET s == raise_for_status(a.value)
            IN IF s.tag = "raise" THEN s ELSE ResponseJson(s.value)

\* YandexAPIClient.metrika_request from the await on.
metrika_response(outcome) ==
    LET a == AwaitCall(outcome)
    IN IF a.tag = "raise" THEN a
       ELSE LET s == raise_for_status(a.value)
            IN IF s.tag = "raise" THEN s
               ELSE IF s.value.status = 204 THEN Ok(Object([success |-> TRUE]))
               ELSE ResponseJson(s.value)

(***************************************************************************)
(* Number formatting.  A monetary amount of the request (a float in        *)
(* currency units) is held in hundredths; vendor amounts are integer       *)
(* micro-units.                                                            *)
(***************************************************************************)

MICROS == 1000000

TwoDigits(n) == IF n < 10 THEN "0" \o ToString(n) ELSE ToString(n)
ThreeDigits(n) == IF n < 10 THEN "00" \o ToString(n) ELSE IF n < 100 THEN "0" \o ToString(n) ELSE ToString(n)

\* The text of hundredths h with two decimals, e.g. 150 -> "1.50".
Hundredths(h) == ToString(h \div 100) \o "." \o TwoDigits(h % 100)

\* f"{micros / 1_000_000:.2f}": the quotient rounded to two decimals.  (On an
\* exact tie the float's binary expansion decides; ties are rounded up here.)
FormatMicros_Truncating(micros) == Hundredths(micros \div (MICROS \div 100))

FormatMicros(micros) == Hundredths((micros + (MICROS \div 200)) \div (MICROS \div 100))

\* int(amount * 1_000_000) for the float amount nearest to h / 100: the float
\* product is within one unit in the last place of h * 10000, and int()
\* truncates, so the result is h * 10000 or one micro-unit less (2.01 gives
\* 2009999).  Both outcomes are kept.
ToMicros(h) == {h * (MICROS \div 100), h * (MICROS \div 100) - 1}

\* f"{n:,}" for a whole number n >= 0.
RECURSIVE Grouped(_)
Grouped(n) == IF n < 1000 THEN ToString(n) ELSE Grouped(n \div 1000) \o "," \o ThreeDigits(n % 1000)

\* f"{v:,.2f}" for a whole number v.
FormatValue(v) == Grouped(v) \o ".00"

\* str(x) of an integer field that may be missing: dict.get(key) gives None.
IntText(obj, key) == IF key \in DOMAIN obj THEN ToString(obj[key]) ELSE "None"

\* The lines of all records of a list, one after the other.
RECURSIVE FlatMap(_, _)
FlatMap(F(_), seq) == IF seq = <<>> THEN <<>> ELSE F(Head(seq)) \o FlatMap(F, Tail(seq))

(***************************************************************************)
(* Response formatters.  Each returns the lines of "\n".join(lines).       *)
(***************************************************************************)

CampaignLines(camp) ==
    <<"## " \o Get(camp, "Name", "Unnamed") \o " (ID: " \o IntText(camp, "Id") \o ")",
      "- **Type**: " \o Get(camp, "Type", "N/A"),
      "- **State**: " \o Get(camp, "State", "N/A"),
      "- **Status**: " \o Get(camp, "Status", "N/A")>>
    \o (IF Get(camp, "DailyBudget", EmptyObj) # EmptyObj
        THEN LET budget == camp["DailyBudget"]
             IN <<"- **Daily Budget**: " \o FormatMicros(Get(budget, "Amount", 0))
                  \o " (" \o Get(budget, "Mode", "N/A") \o ")">>
        ELSE <<>>)
    \o (IF Get(camp, "Statistics", EmptyObj) # EmptyObj
        THEN LET stats == camp["Statistics"]
             IN <<"- **Clicks**: " \o ToString(Get(stats, "Clicks", 0)),
                  "- **Impressions**: " \o ToString(Get(stats, "Impressions", 0))>>
        ELSE <<>>)
    \o <<"">>

format_campaigns_markdown(campaigns) ==
    IF campaigns = <<>> THEN <<"No campaigns found.">>
    ELSE <<"# Campaigns", "">> \o FlatMap(CampaignLines, campaigns)

AdLines(ad) ==
    <<"## Ad ID: " \o IntText(ad, "Id"),
      "- **AdGroup ID**: " \o IntText(ad, "AdGroupId"),
      "- **Campaign ID**: " \o IntText(ad, "CampaignId"),
      "- **State**: " \o Get(ad, "State", "N/A"),
      "- **Status**: " \o Get(ad, "Status", "N/A")>>
    \o (IF Get(ad, "TextAd", EmptyObj) # EmptyObj
        THEN LET text_ad == ad["TextAd"]
             IN <<"- **Title**: " \o Get(text_ad, "Title", "N/A"),
                  "- **Title2**: " \o Get(text_ad, "Title2", "N/A"),
                  "- **Text**: " \o Get(text_ad, "Text", "N/A"),
                  "- **Href**: " \o Get(text_ad, "Href", "N/A")>>
        ELSE <<>>)
    \o <<"">>

format_ads_markdown(ads) ==
    IF ads = <<>> THEN <<"No ads found.">>
    ELSE <<"# Ads", "">> \o FlatMap(AdLines, ads)

\* ', '.join(map(str, region_ids))
RECURSIVE IntTexts(_)
IntTexts(ns) == IF ns = <<>> THEN <<>> ELSE <<ToString(Head(ns))>> \o IntTexts(Tail(ns))

AdGroupLines(group) ==
    <<"## " \o Get(group, "Name", "Unnamed") \o " (ID: " \o IntText(group, "Id") \o ")",
      "- **Campaign ID**: " \o IntText(group, "CampaignId"),
      "- **Type**: " \o Get(group, "Type", "N/A"),
      "- **Status**: " \o Get(group, "Status", "N/A")>>
    \o (LET region_ids == Get(group, "RegionIds", <<>>)
        IN IF region_ids # <<>>
           THEN <<"- **Regions**: " \o Join(IntTexts(region_ids), ", ")>>
           ELSE <<>>)
    \o <<"">>

format_adgroups_markdown(groups) ==
    IF groups = <<>> THEN <<"No ad groups found.">>
    ELSE <<"# Ad Groups", "">> \o FlatMap(AdGroupLines, groups)

KeywordLines(kw) ==
    <<"## " \o Get(kw, "Keyword", "N/A") \o " (ID: " \o IntText(kw, "Id") \o ")",
      "- **AdGroup ID**: " \o IntText(kw, "AdGroupId"),
      "- **State**: " \o Get(kw, "State", "N/A"),
      "- **Status**: " \o Get(kw, "Status", "N/A")>>
    \o (LET bid == Get(kw, "Bid", 0)
        IN IF bid # 0 THEN <<"- **Bid**: " \o FormatMicros(bid)>> ELSE <<>>)
    \o <<"">>

format_keywords_markdown(keywords) ==
    IF keywords = <<>> THEN <<"No keywords found.">>
    ELSE <<"# Keywords", "">> \o FlatMap(KeywordLines, keywords)

CounterLines(counter) ==
    <<"## " \o Get(counter, "name", "Unnamed") \o " (ID: " \o IntText(counter, "id") \o ")",
      "- **Site**: " \o Get(Get(counter, "site2", EmptyObj), "site", "N/A"),
      "- **Status**: " \o Get(counter, "status", "N/A"),
      "- **Code Status**: " \o Get(counter, "code_status", "N/A"),
      "- **Owner**: " \o Get(counter, "owner_login", "N/A")>>
    \o (IF Get(counter, "favorite", FALSE) THEN <<"- **Favorite**: *">> ELSE <<>>)
    \o <<"">>

format_metrika_counters_markdown(counters) ==
    IF counters = <<>> THEN <<"No counters found.">>
    ELSE <<"# Metrika Counters", "">> \o FlatMap(CounterLines, counters)

\* The row limits of the markdown tables: rows[:50] and data_rows[:100].
METRIKA_ROW_LIMIT == 50
STATISTICS_ROW_LIMIT == 100

Min(a, b) == IF a < b THEN a ELSE b

\* seq[:n]
Take(seq, n) == SubSeq(seq, 1, Min(n, Len(seq)))

\* A dimension of a report row is tagged: t = "dict" for an object d, t = "str"
\* for a plain value s.  str(d.get("name", d.get("id", "N/A"))) or str(d).
DimText(d) ==
    IF d.t = "dict" THEN Get(d.d, "name", Get(d.d, "id", "N/A")) ELSE d.s

\* " / ".join(...) if dims else "Total"
DimStr(dims) ==
    IF dims # <<>> THEN Join([i \in 1..Len(dims) |-> DimText(dims[i])], " / ") ELSE "Total"

\* ", ".join(f"{v:,.2f}" for v in values)
ValuesStr(values) == Join([i \in 1..Len(values) |-> FormatValue(values[i])], ", ")

ReportRowLine(row) ==
    "- **" \o DimStr(Get(row, "dimensions", <<>>)) \o "**: "
    \o ValuesStr(Get(row, "metrics", <<>>))

\* The names taken from the end of the list instead of by position.
TotalLabel_Reversed(metrics, i) ==
    IF i <= Len(metrics) THEN metrics[Len(metrics) - i + 1] ELSE "Metric " \o ToString(i)

\* metrics[i] if i < len(metrics) else f"Metric {i+1}", for the total at
\* position i, counted from 1 here and from 0 in the source.
TotalLabel(metrics, i) ==
    IF i <= Len(metrics) THEN metrics[i] ELSE "Metric " \o ToString(i)

\* The "(em dash)" of the source is written "--".
format_metrika_report_markdown(data) ==
    LET query == Get(data, "query", EmptyObj)
        totals == Get(data, "totals", <<>>)
        metrics == Get(query, "metrics", <<>>)
        rows == Get(data, "data", <<>>)
        shown == Take(rows, METRIKA_ROW_LIMIT)
    IN <<"# Metrika Report", "", "## Query Parameters",
         "- **Period**: " \o Get(query, "date1", "N/A") \o " -- " \o Get(query, "date2", "N/A")>>
       \o (IF Get(query, "dimensions", <<>>) # <<>>
           THEN <<"- **Dimensions**: " \o Join(query["dimensions"], ", ")>> ELSE <<>>)
       \o (IF Get(query, "metrics", <<>>) # <<>>
           THEN <<"- **Metrics**: " \o Join(query["metrics"], ", ")>> ELSE <<>>)
       \o <<"">>
       \o (IF totals # <<>>
           THEN <<"## Totals">>
                \o [i \in 1..Len(totals) |->
                      "- **" \o TotalLabel(metrics, i)
                      \o "**: " \o FormatValue(totals[i])]
                \o <<"">>
           ELSE <<>>)
       \o (IF rows # <<>>
           THEN <<"## Data (" \o ToString(Len(rows)) \o " rows)">>
                \o [i \in 1..Len(shown) |-> ReportRowLine(shown[i])]
                \o (IF Len(rows) > METRIKA_ROW_LIMIT
                    THEN <<"", "*...and " \o ToString(Len(rows) - METRIKA_ROW_LIMIT)
                               \o " more rows*">>
                    ELSE <<>>)
           ELSE <<>>)

\* A time interval is a list of its bounds: " -- ".join(str(t) for t in interval).
IntervalStr(interval) == Join(interval, " -- ")

\* One row of the time-series report: its heading, one line per interval with
\* [m[i] if i < len(m) else 0 for m in metrics], and an empty line.
ByTimeRowLines(row, time_intervals) ==
    LET metrics == Get(row, "metrics", <<<<>>>>)
    IN <<"## " \o DimStr(Get(row, "dimensions", <<>>))>>
       \o (IF time_intervals # <<>> /\ metrics # <<>>
           THEN [i \in 1..Len(time_intervals) |->
                   "- " \o IntervalStr(time_intervals[i]) \o ": "
                   \o ValuesStr([k \in 1..Len(metrics) |->
                                   IF i <= Len(metrics[k]) THEN metrics[k][i] ELSE 0])]
           ELSE <<>>)
       \o <<"">>

RECURSIVE ByTimeLines(_, _)
ByTimeLines(rows, time_intervals) ==
    IF rows = <<>> THEN <<>>
    ELSE ByTimeRowLines(Head(rows), time_intervals) \o ByTimeLines(Tail(rows), time_intervals)

\* The markdown branch of metrika_get_report_by_time.
format_bytime_markdown(result, group) ==
    LET query == Get(result, "query", EmptyObj)
    IN <<"# Time-Based Report", "",
         "**Period**: " \o Get(query, "date1", "N/A") \o " -- " \o Get(query, "date2", "N/A"),
         "**Grouping**: " \o group, "">>
       \o ByTimeLines(Get(result, "data", <<>>), Get(result, "time_intervals", <<>>))

(***************************************************************************)
(* Yandex Direct operations.  For each operation: the part before the      *)
(* network call (a set of outcomes, because of ToMicros) and the part      *)
(* after it, applied to the decoded response.                              *)
(***************************************************************************)

\* json.dumps of a listing: the tokens of the text.  An item is written by
\* ToString, which is injective on the model's items.
ItemTokens(items) == [i \in 1..Len(items) |-> ToString(items[i])]

DumpsListing(key, items, total) ==
    <<"{", "\"" \o key \o "\":", "[">> \o ItemTokens(items)
    \o <<"]", "\"total\":", ToString(total), "}">>

\* json.dumps of one value.
DumpsValue(v) == <<ToString(v)>>

ReturnJson(tokens) == [tag |-> "return", form |-> "json", lines |-> tokens]

\* x.get(...) on a decoded response that is not an object.
NotObjectError == Exc("AttributeError", "'list' object has no attribute 'get'")

\* result.get("result", {}).get(key, [])
DirectResults(v, key) == Get(Get(v.obj, "result", EmptyObj), key, <<>>)

\* ---- suspend / resume / archive / unarchive / delete / moderate ----
\* strict: an item counts as a success only without Errors;
\* itemize: the per-item errors are listed in the reply.
BatchInfo(o) ==
    CASE o = "direct_suspend_campaigns" ->
           [service |-> "campaigns", method |-> "suspend", key |-> "SuspendResults",
            strict |-> FALSE, itemize |-> TRUE,
            pre |-> "Successfully suspended ", post |-> " campaign(s)."]
      [] o = "direct_resume_campaigns" ->
           [service |-> "campaigns", method |-> "resume", key |-> "ResumeResults",
            strict |-> FALSE, itemize |-> TRUE,
            pre |-> "Successfully resumed ", post |-> " campaign(s)."]
      [] o = "direct_archive_campaigns" ->
           [service |-> "campaigns", method |-> "archive", key |-> "ArchiveResults",
            strict |-> TRUE, itemize |-> TRUE,
            pre |-> "Successfully archived ", post |-> " campaign(s)."]
      [] o = "direct_unarchive_campaigns" ->
           [service |-> "campaigns", method |-> "unarchive", key |-> "UnarchiveResults",
            strict |-> TRUE, itemize |-> TRUE,
            pre |-> "Successfully unarchived ", post |-> " campaign(s)."]
      [] o = "direct_delete_campaigns" ->
           [service |-> "campaigns", method |-> "delete", key |-> "DeleteResults",
            strict |-> TRUE, itemize |-> TRUE,
            pre |-> "Successfully deleted ", post |-> " campaign(s)."]
      [] o = "direct_moderate_ads" ->
           [service |-> "ads", method |-> "moderate", key |-> "ModerateResults",
            strict |-> TRUE, itemize |-> TRUE,
            pre |-> "Successfully submitted ", post |-> " ad(s) for moderation."]
      [] o = "direct_suspend_ads" ->
           [service |-> "ads", method |-> "suspend", key |-> "SuspendResults",
            strict |-> TRUE, itemize |-> FALSE,
            pre |-> "Successfully suspended ", post |-> " ad(s)."]
      [] o = "direct_resume_ads" ->
           [service |-> "ads", method |-> "resume", key |-> "ResumeResults",
            strict |-> TRUE, itemize |-> FALSE,
            pre |-> "Successfully resumed ", post |-> " ad(s)."]
      [] o = "direct_delete_keywords" ->
           [service |-> "keywords", method |-> "delete", key |-> "DeleteResults",
            strict |-> TRUE, itemize |-> TRUE,
            pre |-> "Successfully deleted ", post |-> " keyword(s)."]
      [] o = "direct_delete_ads" ->
           [service |-> "ads", method |-> "delete", key |-> "DeleteResults",
            strict |-> TRUE, itemize |-> TRUE,
            pre |-> "Successfully deleted ", post |-> " ad(s)."]
      [] o = "direct_archive_ads" ->
           [service |-> "ads", method |-> "archive", key |-> "ArchiveResults",
            strict |-> TRUE, itemize |-> TRUE,
            pre |-> "Successfully archived ", post |-> " ad(s)."]
      [] o = "direct_unarchive_ads" ->
           [service |-> "ads", method |-> "unarchive", key |-> "UnarchiveResults",
            strict |-> TRUE, itemize |-> TRUE,
            pre |-> "Successfully unarchived ", post |-> " ad(s)."]

BatchOps ==
    {"direct_suspend_campaigns", "direct_resume_campaigns", "direct_archive_campaigns",
     "direct_unarchive_campaigns", "direct_delete_campaigns", "direct_moderate_ads",
     "direct_suspend_ads", "direct_resume_ads", "direct_delete_keywords",
     "direct_delete_ads", "direct_archive_ads", "direct_unarchive_ads"}

\* p.ids is campaign_ids, ad_ids or keyword_ids.
BatchBuild(o, p) ==
    {direct_request(BatchInfo(o).service, BatchInfo(o).method,
                    [SelectionCriteria |-> [Ids |-> p.ids]], FALSE)}

\* r.get("Id") and r.get("Errors") as conditions
ItemHasId(r) == Get(r, "Id", 0) # 0
ItemHasErrors(r) == Get(r, "Errors", <<>>) # <<>>

\* [f"ID {r.get('Id', '?')}: {e.get('Message', 'Unknown error')}" for e in r["Errors"]]
ItemErrors(r) ==
    IF ItemHasErrors(r)
    THEN [i \in 1..Len(r["Errors"]) |->
            "ID " \o (IF "Id" \in DOMAIN r THEN ToString(r["Id"]) ELSE "?") \o ": "
            \o Get(r["Errors"][i], "Message", "Unknown error")]
    ELSE <<>>

\* len(success)
SuccessCount(results, strict) ==
    Cardinality({i \in 1..Len(results) :
                   ItemHasId(results[i]) /\ (strict => ~ItemHasErrors(results[i]))})

\* "\n\nErrors:\n" + "\n".join(f"- {e}" for e in errors), when errors is not empty
ErrorsBlock(errors) ==
    IF errors # <<>>
    THEN <<"", "Errors:">> \o [i \in 1..Len(errors) |-> "- " \o errors[i]]
    ELSE <<>>

BatchFinish(o, p, v) ==
    IF v.shape # "object" THEN Fail(NotObjectError)
    ELSE LET info == BatchInfo(o)
             results == DirectResults(v, info.key)
             summary == info.pre \o ToString(SuccessCount(results, info.strict)) \o info.post
         IN IF info.itemize
            THEN Return(<<summary>> \o ErrorsBlock(FlatMap(ItemErrors, results)))
            ELSE Return(<<summary>>)

\* ---- listings ----
\* if params.x: selection_criteria[key] = params.x
Criterion(key, opt) == IF TruthyList(opt) THEN (key :> opt[1]) ELSE EmptyObj

Page(p) == [Limit |-> p.limit, Offset |-> p.offset]

ListingOps == {"direct_get_campaigns", "direct_get_adgroups", "direct_get_ads", "direct_get_keywords"}

ListingRequest(o, p) ==
    CASE o = "direct_get_campaigns" ->
           [SelectionCriteria |-> Criterion("Ids", p.campaign_ids)
                                  @@ Criterion("States", p.states)
                                  @@ Criterion("Statuses", p.statuses)
                                  @@ Criterion("Types", p.types),
            FieldNames |-> <<"Id", "Name", "Type", "State", "Status", "StatusPayment",
                             "StartDate", "EndDate", "DailyBudget", "Statistics">>,
            TextCampaignFieldNames |-> <<"BiddingStrategy", "Settings">>,
            Page |-> Page(p)]
      [] o = "direct_get_adgroups" ->
           [SelectionCriteria |-> Criterion("CampaignIds", p.campaign_ids)
                                  @@ Criterion("Ids", p.adgroup_ids),
            FieldNames |-> <<"Id", "Name", "CampaignId", "RegionIds", "Type", "Status",
                             "ServingStatus">>,
            Page |-> Page(p)]
      [] o = "direct_get_ads" ->
           [SelectionCriteria |-> Criterion("CampaignIds", p.campaign_ids)
                                  @@ Criterion("AdGroupIds", p.adgroup_ids)
                                  @@ Criterion("Ids", p.ad_ids)
                                  @@ Criterion("States", p.states)
                                  @@ Criterion("Statuses", p.statuses),
            FieldNames |-> <<"Id", "AdGroupId", "CampaignId", "Type", "State", "Status",
                             "StatusClarification">>,
            TextAdFieldNames |-> <<"Title", "Title2", "Text", "Href", "Mobile",
                                   "DisplayDomain">>,
            Page |-> Page(p)]
      [] o = "direct_get_keywords" ->
           [SelectionCriteria |-> Criterion("CampaignIds", p.campaign_ids)
                                  @@ Criterion("AdGroupIds", p.adgroup_ids)
                                  @@ Criterion("Ids", p.keyword_ids),
            FieldNames |-> <<"Id", "Keyword", "AdGroupId", "CampaignId", "Bid", "State",
                             "Status">>,
            Page |-> Page(p)]

\* service, the key of the vendor's list and the key of the JSON reply
ListingInfo(o) ==
    CASE o = "direct_get_campaigns" ->
           [service |-> "campaigns", key |-> "Campaigns", json |-> "campaigns"]
      [] o = "direct_get_adgroups" ->
           [service |-> "adgroups", key |-> "AdGroups", json |-> "ad_groups"]
      [] o = "direct_get_ads" -> [service |-> "ads", key |-> "Ads", json |-> "ads"]
      [] o = "direct_get_keywords" ->
           [service |-> "keywords", key |-> "Keywords", json |-> "keywords"]

ListingBuild(o, p) ==
    {direct_request(ListingInfo(o).service, "get", ListingRequest(o, p), FALSE)}

ListingMarkdown(o, items) ==
    CASE o = "direct_get_campaigns" -> format_campaigns_markdown(items)
      [] o = "direct_get_adgroups" -> format_adgroups_markdown(items)
      [] o = "direct_get_ads" -> format_ads_markdown(items)
      [] o = "direct_get_keywords" -> format_keywords_markdown(items)

\* len(items), as the "total" of the JSON reply
ListingTotal(items) == Len(items)

\* The vendor's list as the operation reads it.
ListingItems_Reversed(v, key) ==
    LET items == DirectResults(v, key)
    IN [i \in 1..Len(items) |-> items[Len(items) + 1 - i]]

ListingItems(v, key) == DirectResults(v, key)

ListingFinish(o, p, v) ==
    IF v.shape # "object" THEN Fail(NotObjectError)
    ELSE LET items == ListingItems(v, ListingInfo(o).key)
         IN IF p.response_format = "json"
            THEN ReturnJson(DumpsListing(ListingInfo(o).json, items, ListingTotal(items)))
            ELSE Return(ListingMarkdown(o, items))

\* ---- updates ----
UpdateOps == {"direct_update_campaign", "direct_update_adgroup", "direct_update_ad"}

\* if params.x: update[key] = params.x, for an Optional[str]
StrField(key, opt) == IF TruthyStr(opt) THEN (key :> opt[1]) ELSE EmptyObj

\* The entry of the campaign update for each result of the micro conversion.
CampaignUpdates(p) ==
    LET rest == StrField("Name", p.name)
                @@ StrField("StartDate", p.start_date)
                @@ StrField("EndDate", p.end_date)
                @@ (IF ~IsNone(p.negative_keywords)
                    THEN ("NegativeKeywords" :> [Items |-> p.negative_keywords[1]])
                    ELSE EmptyObj)
    IN IF ~IsNone(p.daily_budget_amount)
       THEN {("Id" :> p.campaign_id)
             @@ ("DailyBudget" :>
                   [Amount |-> m,
                    Mode |-> IF ~IsNone(p.daily_budget_mode) THEN p.daily_budget_mode[1]
                             ELSE "DISTRIBUTED"])
             @@ rest : m \in ToMicros(p.daily_budget_amount[1])}
       ELSE {("Id" :> p.campaign_id) @@ rest}

AdGroupUpdate(p) ==
    ("Id" :> p.adgroup_id)
    @@ StrField("Name", p.name)
    @@ (IF TruthyList(p.region_ids) THEN ("RegionIds" :> p.region_ids[1]) ELSE EmptyObj)
    @@ (IF ~IsNone(p.negative_keywords)
        THEN ("NegativeKeywords" :> [Items |-> p.negative_keywords[1]]) ELSE EmptyObj)
    @@ StrField("TrackingParams", p.tracking_params)

\* The update that takes an empty title for a title.
TextAdUpdate_KeepsEmpty(p) ==
    (IF ~IsNone(p.title) THEN ("Title" :> p.title[1]) ELSE EmptyObj)
    @@ StrField("Title2", p.title2)
    @@ StrField("Text", p.text) @@ StrField("Href", p.href)

TextAdUpdate(p) ==
    StrField("Title", p.title) @@ StrField("Title2", p.title2)
    @@ StrField("Text", p.text) @@ StrField("Href", p.href)

UpdateBuild(o, p) ==
    CASE o = "direct_update_campaign" ->
           {direct_request("campaigns", "update", [Campaigns |-> <<u>>], FALSE) :
              u \in CampaignUpdates(p)}
      [] o = "direct_update_adgroup" ->
           {direct_request("adgroups", "update", [AdGroups |-> <<AdGroupUpdate(p)>>], FALSE)}
      [] o = "direct_update_ad" ->
           IF TextAdUpdate(p) = EmptyObj
           THEN {Return(<<"No fields specified for update.">>)}
           ELSE {direct_request("ads", "update",
                                [Ads |-> <<[Id |-> p.ad_id, TextAd |-> TextAdUpdate(p)]>>],
                                FALSE)}

\* The messages of one update result: its errors, then its warnings.
UpdateIssues(r) ==
    (LET es == Get(r, "Errors", <<>>)
     IN [i \in 1..Len(es) |-> Get(es[i], "Message", "Unknown error")])
    \o (LET ws == Get(r, "Warnings", <<>>)
        IN [i \in 1..Len(ws) |-> "Warning: " \o Get(ws[i], "Message", "Unknown warning")])

UpdatedText(o, p) ==
    CASE o = "direct_update_campaign" ->
           "Campaign " \o ToString(p.campaign_id) \o " updated successfully."
      [] o = "direct_update_adgroup" ->
           "Ad group " \o ToString(p.adgroup_id) \o " updated successfully."
      [] o = "direct_update_ad" ->
           "Ad " \o ToString(p.ad_id)
           \o " updated successfully. Note: Submit for moderation using direct_moderate_ads."

UpdateFinish(o, p, v) ==
    IF v.shape # "object" THEN Fail(NotObjectError)
    ELSE LET errors == FlatMap(UpdateIssues, DirectResults(v, "UpdateResults"))
         IN IF errors # <<>>
            THEN Return(<<"Update completed with issues:">>
                        \o [i \in 1..Len(errors) |-> "- " \o errors[i]])
            ELSE Return(<<UpdatedText(o, p)>>)

\* ---- creations ----
CreateOps == {"direct_create_adgroup", "direct_create_text_ad", "direct_add_keywords",
              "direct_set_keyword_bids"}

\* The vendor item that holds both bids whatever was given.
BidItems_AlwaysBids(kb) ==
    {("KeywordId" :> kb["keyword_id"]) @@ ("SearchBid" :> sb) @@ ("NetworkBid" :> nb) :
       sb \in (IF Get(kb, "search_bid", 0) # 0 THEN ToMicros(kb["search_bid"]) ELSE {0}),
       nb \in (IF Get(kb, "network_bid", 0) # 0 THEN ToMicros(kb["network_bid"]) ELSE {0})}

\* One vendor item of direct_set_keyword_bids for each result of the conversions;
\* kb is a dict whose keys may be missing.
BidItems(kb) ==
    {("KeywordId" :> kb["keyword_id"])
     @@ (IF sb # 0 THEN ("SearchBid" :> sb) ELSE EmptyObj)
     @@ (IF nb # 0 THEN ("NetworkBid" :> nb) ELSE EmptyObj) :
       sb \in (IF Get(kb, "search_bid", 0) # 0 THEN ToMicros(kb["search_bid"]) ELSE {0}),
       nb \in (IF Get(kb, "network_bid", 0) # 0 THEN ToMicros(kb["network_bid"]) ELSE {0})}

RECURSIVE BidLists(_)
BidLists(kbs) ==
    IF kbs = <<>> THEN {<<>>}
    ELSE {<<h>> \o t : h \in BidItems(Head(kbs)), t \in BidLists(Tail(kbs))}

CreateBuild(o, p) ==
    CASE o = "direct_create_adgroup" ->
           {direct_request("adgroups", "add",
              [AdGroups |-> <<[Name |-> p.name, CampaignId |-> p.campaign_id,
                               RegionIds |-> p.region_ids]
                              @@ (IF TruthyList(p.negative_keywords)
                                  THEN ("NegativeKeywords" :> [Items |-> p.negative_keywords[1]])
                                  ELSE EmptyObj)>>],
              FALSE)}
      [] o = "direct_create_text_ad" ->
           {direct_request("ads", "add",
              [Ads |-> <<[AdGroupId |-> p.adgroup_id,
                          TextAd |-> [Title |-> p.title, Text |-> p.text, Href |-> p.href,
                                      Mobile |-> IF p.mobile THEN "YES" ELSE "NO"]
                                     @@ StrField("Title2", p.title2)]>>],
              FALSE)}
      [] o = "direct_add_keywords" ->
           {direct_request("keywords", "add",
              [Keywords |-> [i \in 1..Len(p.keywords) |->
                               [Keyword |-> p.keywords[i], AdGroupId |-> p.adgroup_id]
                               @@ (IF m # 0 THEN ("Bid" :> m) ELSE EmptyObj)]],
              FALSE) :
              m \in (IF TruthyNum(p.bid) THEN ToMicros(p.bid[1]) ELSE {0})}
      [] o = "direct_set_keyword_bids" ->
           IF \E i \in 1..Len(p.keyword_bids) : "keyword_id" \notin DOMAIN p.keyword_bids[i]
           THEN {Raise(Exc("KeyError", "'keyword_id'"), "none")}
           ELSE {direct_request("keywordbids", "set", [KeywordBids |-> l], FALSE) :
                   l \in BidLists(p.keyword_bids)}

\* The messages of the errors of one result.
ItemMessages(r) ==
    LET es == Get(r, "Errors", <<>>)
    IN [i \in 1..Len(es) |-> Get(es[i], "Message", "Unknown error")]

Bullets(errors) == [i \in 1..Len(errors) |-> "- " \o errors[i]]

\* "head:\n" + "\n".join(f"- {e}" for e in errors)
FailedLines(head, errors) == IF errors = <<>> THEN <<head, "">> ELSE <<head>> \o Bullets(errors)

IsStrictSuccess(r) == ItemHasId(r) /\ ~ItemHasErrors(r)

SuccessIds(results) ==
    LET ok == SelectSeq(results, IsStrictSuccess)
    IN [i \in 1..Len(ok) |-> ToString(ok[i]["Id"])]

IsBidSuccess(r) == Get(r, "KeywordId", 0) # 0 /\ ~ItemHasErrors(r)

CreateFinish(o, p, v) ==
    IF v.shape # "object" THEN Fail(NotObjectError)
    ELSE CASE o = "direct_create_adgroup" ->
                LET add_results == DirectResults(v, "AddResults")
                IN IF add_results # <<>> /\ ItemHasId(add_results[1])
                   THEN Return(<<"Ad group created successfully. ID: "
                                 \o ToString(add_results[1]["Id"])>>)
                   ELSE Return(FailedLines("Failed to create ad group:",
                                           FlatMap(ItemMessages, add_results)))
           [] o = "direct_create_text_ad" ->
                LET add_results == DirectResults(v, "AddResults")
                IN IF add_results # <<>> /\ ItemHasId(add_results[1])
                   THEN Return(<<"Ad created successfully. ID: "
                                 \o ToString(add_results[1]["Id"]), "",
                                 "Note: Submit for moderation using direct_moderate_ads.">>)
                   ELSE Return(FailedLines("Failed to create ad:",
                                           FlatMap(ItemMessages, add_results)))
           [] o = "direct_add_keywords" ->
                LET add_results == DirectResults(v, "AddResults")
                    success_ids == SuccessIds(add_results)
                IN Return(<<"Successfully added " \o ToString(Len(success_ids))
                            \o " keyword(s).">>
                          \o (IF success_ids # <<>>
                              THEN <<"IDs: " \o Join(success_ids, ", ")>> ELSE <<>>)
                          \o ErrorsBlock(FlatMap(ItemMessages, add_results)))
           [] o = "direct_set_keyword_bids" ->
                LET set_results == DirectResults(v, "SetResults")
                IN Return(<<"Successfully updated bids for "
                            \o ToString(Len(SelectSeq(set_results, IsBidSuccess)))
                            \o " keyword(s).">>)

\* ---- the statistics report ----
\* The TSV text is the sequence of its lines and a line the sequence of its
\* cells (the text split on "\n", a line split on "\t"); an empty line is <<"">>.
IsBlankLine(line) == \A i \in 1..Len(line) : line[i] = ""

RECURSIVE DropLeadingBlank(_)
DropLeadingBlank(seq) ==
    IF seq # <<>> /\ IsBlankLine(<<Head(seq)>>) THEN DropLeadingBlank(Tail(seq)) ELSE seq

RECURSIVE DropTrailingBlank(_)
DropTrailingBlank(seq) ==
    IF seq # <<>> /\ IsBlankLine(<<seq[Len(seq)]>>)
    THEN DropTrailingBlank(SubSeq(seq, 1, Len(seq) - 1)) ELSE seq

RECURSIVE DropLeadingBlankLines(_)
DropLeadingBlankLines(lines) ==
    IF lines # <<>> /\ IsBlankLine(Head(lines)) THEN DropLeadingBlankLines(Tail(lines))
    ELSE lines

RECURSIVE DropTrailingBlankLines(_)
DropTrailingBlankLines(lines) ==
    IF lines # <<>> /\ IsBlankLine(lines[Len(lines)])
    THEN DropTrailingBlankLines(SubSeq(lines, 1, Len(lines) - 1)) ELSE lines

\* response.text.strip().split("\n"): the blank lines at both ends go, and so do
\* the empty cells before the first text and after the last.
StripSplit(text) ==
    LET body == DropTrailingBlankLines(DropLeadingBlankLines(text))
    IN IF body = <<>> THEN << <<"">> >>
       ELSE LET n == Len(body)
            IN [i \in 1..n |->
                  LET a == IF i = 1 THEN DropLeadingBlank(body[i]) ELSE body[i]
                  IN IF i = n THEN DropTrailingBlank(a) ELSE a]

IsDataLine(line) == ~IsBlankLine(line)

\* dict(zip(header, row)): a later column of the same name wins.
ZipDict(header, row) ==
    LET n == Min(Len(header), Len(row))
    IN [k \in {header[i] : i \in 1..n} |->
          row[CHOOSE i \in 1..n : header[i] = k /\ \A j \in (i + 1)..n : header[j] # k]]

TableLine(cells) == "| " \o Join(cells, " | ") \o " |"

\* data_rows[:100]
StatisticsShown_NoLimit(data_rows) == data_rows

StatisticsShown(data_rows) == Take(data_rows, STATISTICS_ROW_LIMIT)

\* The branch of status 200 of direct_get_statistics.
StatisticsTable(p, text) ==
    LET lines == StripSplit(text)
    IN IF Len(lines) < 2 THEN Return(<<"No data found for the specified period.">>)
       ELSE LET header == lines[1]
                data_rows == SelectSeq(Tail(lines), IsDataLine)
                shown == StatisticsShown(data_rows)
            IN IF p.response_format = "json"
               THEN ReturnJson(DumpsListing("data",
                                            [i \in 1..Len(data_rows) |->
                                               ZipDict(header, data_rows[i])],
                                            Len(data_rows)))
               ELSE Return(<<"# Direct Statistics Report", "",
                             "**Period**: " \o p.date_from \o " -- " \o p.date_to,
                             "**Report type**: " \o p.report_type, "",
                             TableLine(header),
                             TableLine([i \in 1..Len(header) |-> "---"])>>
                           \o [i \in 1..Len(shown) |-> TableLine(shown[i])]
                           \o (IF Len(data_rows) > STATISTICS_ROW_LIMIT
                               THEN <<"", "*...and "
                                          \o ToString(Len(data_rows) - STATISTICS_ROW_LIMIT)
                                          \o " more rows*">>
                               ELSE <<>>))

\* The function ends without a return statement.
ReturnNone == [tag |-> "return_none"]

StatisticsBuild(p) ==
    LET report_def ==
          [SelectionCriteria |->
             [DateFrom |-> p.date_from, DateTo |-> p.date_to]
             @@ (IF TruthyList(p.campaign_ids)
                 THEN ("Filter" :> <<[Field |-> "CampaignId", Operator |-> "IN",
                                      Values |-> IntTexts(p.campaign_ids[1])]>>)
                 ELSE EmptyObj),
           FieldNames |-> p.field_names,
           ReportName |-> "Report_" \o p.date_from \o "_" \o p.date_to,
           ReportType |-> p.report_type,
           DateRangeType |-> "CUSTOM_DATE",
           Format |-> "TSV",
           IncludeVAT |-> IF p.include_vat THEN "YES" ELSE "NO",
           IncludeDiscount |-> "NO"]
        token == get_direct_token
        base == ("Authorization" :> ("Bearer " \o token))
                @@ ("Accept-Language" :> "ru")
                @@ ("Content-Type" :> "application/json")
                @@ ("processingMode" :> "auto")
                @@ ("returnMoneyInMicros" :> "false")
                @@ ("skipReportHeader" :> "true")
                @@ ("skipColumnHeader" :> "false")
                @@ ("skipReportSummary" :> "true")
    IN IF token = ""
       THEN {Raise(Exc("ValueError", "Yandex Direct API token not configured."), "none")}
       ELSE {Send([api |-> "reports", verb |-> "POST",
                   url |-> get_direct_url(FALSE) \o "/reports",
                   headers |-> IF client_login # ""
                               THEN base @@ ("Client-Login" :> client_login) ELSE base,
                   json |-> [params |-> report_def],
                   timeout |-> REPORT_TIMEOUT])}

\* direct_get_statistics without its branch for 201 and 202: every status but
\* 200 goes to raise_for_status.
StatisticsFinish_NoPending(p, outcome) ==
    LET a == AwaitCall(outcome)
    IN IF a.tag = "raise" THEN a
       ELSE LET response == a.value
            IN IF response.status = 200 THEN StatisticsTable(p, response.body.text)
               ELSE LET s == raise_for_status(response)
                    IN IF s.tag = "raise" THEN s ELSE ReturnNone

\* direct_get_statistics from the await of client.post on.
StatisticsFinish(p, outcome) ==
    LET a == AwaitCall(outcome)
    IN IF a.tag = "raise" THEN a
       ELSE LET response == a.value
            IN IF response.status = 200 THEN StatisticsTable(p, response.body.text)
               ELSE IF response.status = 201 \/ response.status = 202
               THEN Return(<<"Report is being generated. Please try again in a few seconds.">>)
               ELSE LET s == raise_for_status(response)
                    IN IF s.tag = "raise" THEN s ELSE ReturnNone

(***************************************************************************)
(* Yandex Metrika operations                                               *)
(***************************************************************************)

MetrikaOps == {"metrika_get_counters", "metrika_get_counter", "metrika_create_counter",
               "metrika_get_goals", "metrika_create_goal", "metrika_get_report",
               "metrika_get_report_by_time", "metrika_delete_counter"}

\* if params.x: query_params[key] = ",".join(params.x), for an Optional[List[str]]
JoinedField(key, opt) == IF TruthyList(opt) THEN (key :> Join(opt[1], ",")) ELSE EmptyObj

MetrikaBuild(o, p) ==
    CASE o = "metrika_get_counters" ->
           {metrika_request("/management/v1/counters", "GET",
              (IF ~IsNone(p.favorite)
               THEN ("favorite" :> (IF p.favorite[1] THEN "true" ELSE "false"))
               ELSE EmptyObj)
              @@ StrField("search_string", p.search_string),
              None)}
      [] o = "metrika_get_counter" ->
           {metrika_request("/management/v1/counter/" \o ToString(p.counter_id), "GET",
                            None, None)}
      [] o = "metrika_create_counter" ->
           {metrika_request("/management/v1/counters", "POST", None,
                            [counter |-> [name |-> p.name, site2 |-> [site |-> p.site]]])}
      [] o = "metrika_get_goals" ->
           {metrika_request("/management/v1/counter/" \o ToString(p.counter_id) \o "/goals",
                            "GET", None, None)}
      [] o = "metrika_create_goal" ->
           {metrika_request("/management/v1/counter/" \o ToString(p.counter_id) \o "/goals",
                            "POST", None,
                            [goal |-> [name |-> p.name, type |-> p.goal_type,
                                       conditions |-> p.conditions]])}
      [] o = "metrika_get_report" ->
           {metrika_request("/stat/v1/data", "GET",
              ("id" :> p.counter_id)
              @@ ("metrics" :> Join(p.metrics, ","))
              @@ ("limit" :> p.limit)
              @@ JoinedField("dimensions", p.dimensions)
              @@ StrField("date1", p.date1)
              @@ StrField("date2", p.date2)
              @@ StrField("filters", p.filters)
              @@ StrField("sort", p.sort),
              None)}
      [] o = "metrika_get_report_by_time" ->
           {metrika_request("/stat/v1/data/bytime", "GET",
              ("id" :> p.counter_id)
              @@ ("metrics" :> Join(p.metrics, ","))
              @@ ("group" :> p.group)
              @@ JoinedField("dimensions", p.dimensions)
              @@ StrField("date1", p.date1)
              @@ StrField("date2", p.date2),
              None)}
      [] o = "metrika_delete_counter" ->
           {metrika_request("/management/v1/counter/" \o ToString(p.counter_id), "DELETE",
                            None, None)}

\* str(x) of a text field that may be missing
TextOrNone(obj, key) == Get(obj, key, "None")

GoalLine(goal) == "- " \o Get(goal, "name", "Unnamed") \o " (ID: " \o IntText(goal, "id") \o ")"

\* The markdown branch of metrika_get_counter.
CounterDetails(counter) ==
    <<"# Counter: " \o Get(counter, "name", "Unnamed") \o " (ID: " \o IntText(counter, "id") \o ")",
      "", "## Basic Info",
      "- **Site**: " \o Get(Get(counter, "site2", EmptyObj), "site", "N/A"),
      "- **Status**: " \o Get(counter, "status", "N/A"),
      "- **Code Status**: " \o Get(counter, "code_status", "N/A"),
      "- **Owner**: " \o Get(counter, "owner_login", "N/A"),
      "- **Created**: " \o Get(counter, "create_time", "N/A")>>
    \o (IF Get(counter, "webvisor", EmptyObj) # EmptyObj
        THEN LET webvisor == counter["webvisor"]
             IN <<"", "## Webvisor",
                  "- **Version**: " \o Get(webvisor, "wv_version", "N/A"),
                  "- **Enabled**: "
                  \o (IF Get(webvisor, "arch_enabled", FALSE) THEN "True" ELSE "False")>>
        ELSE <<>>)
    \o (LET goals == Get(counter, "goals", <<>>)
            shown == Take(goals, 10)
        IN IF goals # <<>>
           THEN <<"", "## Goals (" \o ToString(Len(goals)) \o ")">>
                \o [i \in 1..Len(shown) |-> GoalLine(shown[i])]
           ELSE <<>>)

\* The reply of metrika_create_counter (the code fence of the source is written ~~~).
CounterCreated(counter) ==
    <<"Counter created successfully!", "",
      "**ID**: " \o IntText(counter, "id"),
      "**Name**: " \o TextOrNone(counter, "name"),
      "**Site**: " \o TextOrNone(Get(counter, "site2", EmptyObj), "site"),
      "",
      "Add this tracking code to your website:",
      "~~~html",
      "<!-- Yandex.Metrika counter -->",
      "<script type=\"text/javascript\">",
      "   (function(m,e,t,r,i,k,a){m[i]=m[i]||function(){(m[i].a=m[i].a||[]).push(arguments)};",
      "   m[i].l=1*new Date();",
      "   for (var j = 0; j < document.scripts.length; j++) {if (document.scripts[j].src === r) { return; }}",
      "   k=e.createElement(t),a=e.getElementsByTagName(t)[0],k.async=1,k.src=r,a.parentNode.insertBefore(k,a)})",
      "   (window, document, \"script\", \"https://mc.yandex.ru/metrika/tag.js\", \"ym\");",
      "",
      "   ym(" \o IntText(counter, "id") \o ", \"init\", {",
      "        clickmap:true,",
      "        trackLinks:true,",
      "        accurateTrackBounce:true",
      "   });",
      "</script>",
      "~~~">>

ConditionLine(cond) ==
    "  - " \o Get(cond, "type", "N/A") \o ": " \o Get(cond, "url", Get(cond, "value", "N/A"))

GoalLines(goal) ==
    <<"## " \o Get(goal, "name", "Unnamed") \o " (ID: " \o IntText(goal, "id") \o ")",
      "- **Type**: " \o Get(goal, "type", "N/A")>>
    \o (LET conditions == Get(goal, "conditions", <<>>)
        IN IF conditions # <<>>
           THEN <<"- **Conditions**:">>
                \o [i \in 1..Len(conditions) |-> ConditionLine(conditions[i])]
           ELSE <<>>)
    \o <<"">>

MetrikaFinish(o, p, v) ==
    IF o = "metrika_delete_counter"
    THEN Return(<<"Counter " \o ToString(p.counter_id) \o " deleted successfully.">>)
    ELSE IF v.shape # "object" THEN Fail(NotObjectError)
    ELSE LET result == v.obj
         IN CASE o = "metrika_get_counters" ->
                   LET counters == Get(result, "counters", <<>>)
                   IN IF p.response_format = "json"
                      THEN ReturnJson(DumpsListing("counters", counters,
                                                   Get(result, "rows", Len(counters))))
                      ELSE Return(format_metrika_counters_markdown(counters))
              [] o = "metrika_get_counter" ->
                   LET counter == Get(result, "counter", EmptyObj)
                   IN IF p.response_format = "json" THEN ReturnJson(DumpsValue(counter))
                      ELSE Return(CounterDetails(counter))
              [] o = "metrika_create_counter" ->
                   Return(CounterCreated(Get(result, "counter", EmptyObj)))
              [] o = "metrika_get_goals" ->
                   LET goals == Get(result, "goals", <<>>)
                   IN IF p.response_format = "json"
                      THEN ReturnJson(DumpsListing("goals", goals, Len(goals)))
                      ELSE IF goals = <<>>
                      THEN Return(<<"No goals configured for this counter.">>)
                      ELSE Return(<<"# Goals for Counter " \o ToString(p.counter_id), "">>
                                  \o FlatMap(GoalLines, goals))
              [] o = "metrika_create_goal" ->
                   LET goal == Get(result, "goal", EmptyObj)
                   IN Return(<<"Goal created successfully!", "",
                               "**ID**: " \o IntText(goal, "id"),
                               "**Name**: " \o TextOrNone(goal, "name"),
                               "**Type**: " \o TextOrNone(goal, "type")>>)
              [] o = "metrika_get_report" ->
                   IF p.response_format = "json" THEN ReturnJson(DumpsValue(result))
                   ELSE Return(format_metrika_report_markdown(result))
              [] o = "metrika_get_report_by_time" ->
                   IF p.response_format = "json" THEN ReturnJson(DumpsValue(result))
                   ELSE Return(format_bytime_markdown(result, p.group))

(***************************************************************************)
(* The catalogue of operations                                             *)
(***************************************************************************)

Ops == BatchOps \cup ListingOps \cup UpdateOps \cup CreateOps
       \cup {"direct_get_statistics"} \cup MetrikaOps

\* The operation up to its network call: the set of ways it can go.
Build(o, p) ==
    CASE o \in BatchOps -> BatchBuild(o, p)
      [] o \in ListingOps -> ListingBuild(o, p)
      [] o \in UpdateOps -> UpdateBuild(o, p)
      [] o \in CreateOps -> CreateBuild(o, p)
      [] o = "direct_get_statistics" -> StatisticsBuild(p)
      [] o \in MetrikaOps -> MetrikaBuild(o, p)

\* The operation from the await of its network call to the end of its try block.
Finish(o, p, outcome) ==
    IF o = "direct_get_statistics" THEN StatisticsFinish(p, outcome)
    ELSE LET r == IF o \in MetrikaOps THEN metrika_response(outcome)
                  ELSE direct_response(outcome)
         IN IF r.tag = "raise" THEN r
            ELSE CASE o \in BatchOps -> BatchFinish(o, p, r.value)
                   [] o \in ListingOps -> ListingFinish(o, p, r.value)
                   [] o \in UpdateOps -> UpdateFinish(o, p, r.value)
                   [] o \in CreateOps -> CreateFinish(o, p, r.value)
                   [] o \in MetrikaOps -> MetrikaFinish(o, p, r.value)

\* How the invocation leaves its async with block: the client calls return the
\* payload or raise inside it, direct_get_statistics runs to its end inside it.
LeavesScope(o, p, outcome) ==
    LET r == CASE o = "direct_get_statistics" -> StatisticsFinish(p, outcome)
               [] o \in MetrikaOps -> metrika_response(outcome)
               [] OTHER -> direct_response(outcome)
    IN IF r.tag = "raise" THEN "raise" ELSE "ok"

\* What the caller of an operation gets: a string (form "text": its lines,
\* form "json": its tokens), None, or an exception that left the operation.
StrResult(form, lines) == [kind |-> "str", form |-> form, lines |-> lines]
NoneResult == [kind |-> "none"]
RaisedResult(exc) == [kind |-> "raised", exc |-> exc]

\* except Exception as e: return _handle_api_error(e)
Caught(exc) ==
    LET h == handle_api_error(exc)
    IN IF h.raised THEN RaisedResult(h.exc) ELSE StrResult("text", <<h.value>>)

\* The result of an operation whose try block ended as t.
Result(t) ==
    CASE t.tag = "return" -> StrResult(t.form, t.lines)
      [] t.tag = "return_none" -> NoneResult
      [] t.tag = "raise" -> Caught(t.exc)

(***************************************************************************)
(* Inputs: validated parameter objects of each operation                   *)
(***************************************************************************)

\* The longest list of ids of a batch operation.
MaxIds == 2

Formats == {"markdown", "json"}

\* [1, 2, ..., n]
IdList(n) == [i \in 1..n |-> i]

OptIds == {None, Some(<<>>), Some(<<7>>)}
OptText == {None, Some(""), Some("x")}
\* Amounts in hundredths: 1.50, 2.01 and 0.29
Amounts == {150, 201, 29}

Params(o) ==
    CASE o \in BatchOps -> {[ids |-> IdList(n)] : n \in 1..MaxIds}
      [] o = "direct_get_campaigns" ->
           {[campaign_ids |-> i, states |-> st, statuses |-> None, types |-> None,
             limit |-> 100, offset |-> 0, response_format |-> f] :
              i \in OptIds, st \in {None, Some(<<"ON", "OFF">>)}, f \in Formats}
      [] o = "direct_get_adgroups" ->
           {[campaign_ids |-> i, adgroup_ids |-> None,
             limit |-> 100, offset |-> 0, response_format |-> f] :
              i \in OptIds, f \in Formats}
      [] o = "direct_get_ads" ->
           {[campaign_ids |-> i, adgroup_ids |-> None, ad_ids |-> None,
             states |-> None, statuses |-> st,
             limit |-> 100, offset |-> 0, response_format |-> f] :
              i \in OptIds, st \in {None, Some(<<"DRAFT">>)}, f \in Formats}
      [] o = "direct_get_keywords" ->
           {[campaign_ids |-> None, adgroup_ids |-> i, keyword_ids |-> None,
             limit |-> 10, offset |-> 5, response_format |-> f] :
              i \in OptIds, f \in Formats}
      [] o = "direct_update_campaign" ->
           {[campaign_id |-> 7, name |-> n, daily_budget_amount |-> a,
             daily_budget_mode |-> m, start_date |-> None, end_date |-> None,
             negative_keywords |-> None] :
              n \in OptText, a \in {None, Some(201)}, m \in {None, Some("STANDARD")}}
      [] o = "direct_update_adgroup" ->
           {[adgroup_id |-> 7, name |-> n, region_ids |-> r,
             negative_keywords |-> k, tracking_params |-> None] :
              n \in OptText, r \in {None, Some(<<225>>)}, k \in {None, Some(<<>>)}}
      [] o = "direct_update_ad" ->
           {[ad_id |-> 7, title |-> t, title2 |-> None, text |-> x, href |-> None] :
              t \in OptText, x \in {None, Some("body")}}
      [] o = "direct_create_adgroup" ->
           {[campaign_id |-> 7, name |-> "g", region_ids |-> <<225>>,
             negative_keywords |-> k] : k \in {None, Some(<<>>), Some(<<"free">>)}}
      [] o = "direct_create_text_ad" ->
           {[adgroup_id |-> 7, title |-> "t", title2 |-> t2, text |-> "x",
             href |-> "https://example.com", mobile |-> m] :
              t2 \in OptText, m \in BOOLEAN}
      [] o = "direct_add_keywords" ->
           {[adgroup_id |-> 7, keywords |-> <<"buy", "rent">>, bid |-> b] :
              b \in {None} \cup {Some(a) : a \in Amounts}}
      [] o = "direct_set_keyword_bids" ->
           {[keyword_bids |-> kbs] :
              kbs \in {<<[keyword_id |-> 1, search_bid |-> 150]>>,
                       <<[keyword_id |-> 1, search_bid |-> 201, network_bid |-> 29]>>,
                       <<[keyword_id |-> 1], [keyword_id |-> 2, network_bid |-> 150]>>,
                       <<[keyword_id |-> 2, search_bid |-> 0, network_bid |-> 29]>>,
                       <<[search_bid |-> 150]>>,
                       <<[keyword_id |-> 1, search_bid |-> 150], [network_bid |-> 29]>>}}
      [] o = "direct_get_statistics" ->
           {[report_type |-> "CAMPAIGN_PERFORMANCE_REPORT",
             date_from |-> "2024-01-01", date_to |-> "2024-01-31",
             field_names |-> <<"CampaignName", "Clicks">>,
             campaign_ids |-> i, include_vat |-> TRUE, response_format |-> f] :
              i \in {None, Some(<<7>>)}, f \in Formats}
      [] o = "metrika_get_counters" ->
           {[favorite |-> fav, search_string |-> q, response_format |-> f] :
              fav \in {None, Some(TRUE), Some(FALSE)}, q \in {None, Some("shop")},
              f \in Formats}
      [] o \in {"metrika_get_counter", "metrika_delete_counter", "metrika_get_goals"} ->
           {[counter_id |-> c, response_format |-> f] : c \in {7, 12345}, f \in Formats}
      [] o = "metrika_create_counter" ->
           {[name |-> "shop", site |-> site] : site \in {"example.com", "shop.example"}}
      [] o = "metrika_create_goal" ->
           {[counter_id |-> 7, name |-> "order", goal_type |-> "url", conditions |-> c] :
              c \in {<<>>, <<[type |-> "contain", url |-> "/thanks"]>>}}
      [] o = "metrika_get_report" ->
           {[counter_id |-> 7, metrics |-> <<"ym:s:visits", "ym:s:users">>,
             dimensions |-> d, date1 |-> d1, date2 |-> None, filters |-> None,
             sort |-> None, limit |-> 100, response_format |-> f] :
              d \in {None, Some(<<"ym:s:date">>)}, d1 \in {None, Some("2024-01-01")},
              f \in Formats}
      [] o = "metrika_get_report_by_time" ->
           {[counter_id |-> 7, metrics |-> <<"ym:s:visits">>,
             dimensions |-> None, date1 |-> d1, date2 |-> None, group |-> g,
             response_format |-> f] :
              d1 \in {None, Some("2024-01-01")}, g \in {"day", "week"}, f \in Formats}

(***************************************************************************)
(* Vendor outcomes: what the awaited network call can give                 *)
(***************************************************************************)

\* The longest list the vendor returns in a listing, and the largest number of
\* data lines of a statistics report.
MaxItems == 2
MaxDataRows == 102

Response(status, body) == [kind |-> "response", status |-> status, body |-> body]
Transport == {[kind |-> "timeout"], [kind |-> "connect_error"]}

\* {"error": {"error_string": es, "error_detail": ed}}
ErrorObj(es, ed) ==
    Object([error |-> [t |-> "dict", d |-> [error_string |-> es, error_detail |-> ed]]])

ErrStatuses == {301, 400, 429, 503}
ErrBodies == {NotJson, Object(EmptyObj), ErrorObj("Invalid request", "Bad id")}

\* Outcomes every operation of the JSON APIs can meet: transport failures, error
\* statuses, and successes whose body is empty, not JSON or not an object.
Common ==
    Transport
    \cup {Response(st, b) : st \in ErrStatuses, b \in ErrBodies}
    \cup {Response(200, NotJson), Response(200, NonObject), Response(204, NotJson),
          Response(200, Object(EmptyObj))}

\* All lists of at most n members of pool.
Lists(pool, n) == UNION {[1..k -> pool] : k \in 0..n}

\* {"result": {key: list}}
DirectBody(key, list) == Object([result |-> (key :> list)])

\* The vendor's result for one id: done, refused, or done with errors attached.
ItemResults(id) ==
    {[Id |-> id],
     [Errors |-> <<[Message |-> "Object not found"]>>],
     [Id |-> id, Errors |-> <<[Message |-> "Is archived"]>>]}

\* A refusal with two errors, one of them without a message.
TwoErrors == <<[Errors |-> <<[Message |-> "Object not found"], [Code |-> 8800]>>]>>

RECURSIVE ResultLists(_)
ResultLists(ids) ==
    IF ids = <<>> THEN {<<>>}
    ELSE {<<h>> \o t : h \in ItemResults(Head(ids)), t \in ResultLists(Tail(ids))}

CampaignPool ==
    {[Id |-> 1, Name |-> "Sale", Type |-> "TEXT_CAMPAIGN", State |-> "ON",
      Status |-> "ACCEPTED", DailyBudget |-> [Amount |-> 1500000, Mode |-> "STANDARD"],
      Statistics |-> [Clicks |-> 3, Impressions |-> 40]],
     [Id |-> 2, Name |-> "Brand"]}
AdGroupPool == {[Id |-> 1, Name |-> "Shoes", CampaignId |-> 7, RegionIds |-> <<225, 1>>],
                [Id |-> 2]}
AdPool == {[Id |-> 1, AdGroupId |-> 3, CampaignId |-> 7, State |-> "ON",
            TextAd |-> [Title |-> "Buy", Text |-> "Now"]],
           [Id |-> 2]}
KeywordPool == {[Id |-> 1, Keyword |-> "buy shoes", AdGroupId |-> 3, Bid |-> 2009999],
                [Id |-> 2, Keyword |-> "rent"]}
CounterPool == {[id |-> 1, name |-> "Shop", site2 |-> [site |-> "example.com"],
                 status |-> "Active", favorite |-> TRUE],
                [id |-> 2]}
GoalPool == {[id |-> 1, name |-> "Order", type |-> "url",
              conditions |-> <<[type |-> "contain", url |-> "/thanks"], [type |-> "exact"]>>],
             [id |-> 2]}

ListingPool(o) ==
    CASE o = "direct_get_campaigns" -> CampaignPool
      [] o = "direct_get_adgroups" -> AdGroupPool
      [] o = "direct_get_ads" -> AdPool
      [] o = "direct_get_keywords" -> KeywordPool

\* The TSV report with a header line and n data lines; blank tells whether an
\* empty line follows the first data line, and the text ends with a line break.
TsvBody(text) == [shape |-> "tsv", text |-> text]
ReportText(n, blank) ==
    << <<"CampaignName", "Clicks">> >>
    \o [i \in 1..(IF n > 0 /\ blank THEN 1 ELSE 0) |-> <<"c1", "1">>]
    \o [i \in 1..(IF n > 0 /\ blank THEN 1 ELSE 0) |-> <<"">>]
    \o [i \in 1..(IF n > 0 /\ blank THEN n - 1 ELSE n) |->
          <<"c" \o ToString(i + (IF blank THEN 1 ELSE 0)),
            ToString(i + (IF blank THEN 1 ELSE 0))>>]
    \o << <<"">> >>

\* The numbers of data lines tried: none, a few, and around the limit of the table.
DataRowCounts ==
    {0, 1, 2, STATISTICS_ROW_LIMIT - 1, STATISTICS_ROW_LIMIT, STATISTICS_ROW_LIMIT + 1, MaxDataRows}

Reports ==
    {<< <<"">> >>, << <<"CampaignName", "Clicks">> >>}
    \cup {ReportText(n, b) : n \in DataRowCounts, b \in BOOLEAN}

ReportData ==
    {EmptyObj,
     [query |-> [date1 |-> "2024-01-01", date2 |-> "2024-01-07",
                 metrics |-> <<"ym:s:visits">>, dimensions |-> <<"ym:s:date">>],
      totals |-> <<1200, 7>>,
      data |-> <<[dimensions |-> <<[t |-> "dict", d |-> [name |-> "2024-01-01"]]>>,
                  metrics |-> <<1000, 5>>],
                 [dimensions |-> <<[t |-> "str", s |-> "other"]>>, metrics |-> <<200>>]>>],
     [query |-> [date1 |-> "2024-01-01"], totals |-> <<3>>],
     [query |-> [date1 |-> "2024-01-01", date2 |-> "2024-01-07",
                 metrics |-> <<"ym:s:visits", "ym:s:users">>],
      totals |-> <<1200, 7>>,
      data |-> <<[dimensions |-> <<>>, metrics |-> <<1200, 7>>]>>]}

ByTimeData ==
    {EmptyObj,
     [query |-> [date1 |-> "2024-01-01", date2 |-> "2024-01-02"],
      time_intervals |-> << <<"2024-01-01", "2024-01-01">>, <<"2024-01-02", "2024-01-02">> >>,
      data |-> <<[dimensions |-> <<>>, metrics |-> << <<10, 20>>, <<1>> >>]>>],
     [time_intervals |-> << <<"2024-01-01", "2024-01-01">> >>, data |-> <<EmptyObj>>]}

\* The outcomes tried for operation o invoked with p.
Outcomes(o, p) ==
    CASE o \in BatchOps ->
           Common \cup {Response(200, DirectBody(BatchInfo(o).key, l)) :
                          l \in ResultLists(p.ids) \cup {TwoErrors}}
      [] o \in ListingOps ->
           Common \cup {Response(200, DirectBody(ListingInfo(o).key, l)) :
                          l \in Lists(ListingPool(o), MaxItems)}
      [] o \in UpdateOps ->
           Common \cup {Response(200, DirectBody("UpdateResults", l)) :
                          l \in {<<[Id |-> 7]>>,
                                 <<[Errors |-> <<[Message |-> "Invalid value"]>>]>>,
                                 <<[Id |-> 7, Warnings |-> <<[Message |-> "Check url"]>>]>>}}
      [] o \in {"direct_create_adgroup", "direct_create_text_ad"} ->
           Common \cup {Response(200, DirectBody("AddResults", l)) :
                          l \in {<<>>, <<[Id |-> 11]>>,
                                 <<[Errors |-> <<[Message |-> "Invalid value"]>>]>>}}
      [] o = "direct_add_keywords" ->
           Common \cup {Response(200, DirectBody("AddResults", l)) :
                          l \in ResultLists(<<11, 12>>)}
      [] o = "direct_set_keyword_bids" ->
           Common \cup {Response(200, DirectBody("SetResults", l)) :
                          l \in {<<[KeywordId |-> 1]>>,
                                 <<[KeywordId |-> 1],
                                   [Errors |-> <<[Message |-> "Invalid bid"]>>]>>}}
      [] o = "direct_get_statistics" ->
           Transport
           \cup {Response(st, b) : st \in ErrStatuses, b \in ErrBodies}
           \cup {Response(200, TsvBody(t)) : t \in Reports}
           \cup {Response(st, TsvBody(<< <<"">> >>)) : st \in {201, 202, 204}}
      [] o = "metrika_get_counters" ->
           Common \cup {Response(200, Object([counters |-> l])) :
                          l \in Lists(CounterPool, MaxItems)}
                  \cup {Response(200, Object([counters |-> l, rows |-> 25])) :
                          l \in Lists(CounterPool, 1)}
      [] o \in {"metrika_get_counter", "metrika_create_counter"} ->
           Common \cup {Response(200, Object([counter |-> c])) :
                          c \in CounterPool
                                \cup {[id |-> 3, name |-> "Blog",
                                       webvisor |-> [wv_version |-> "2", arch_enabled |-> TRUE],
                                       goals |-> <<[id |-> 1, name |-> "Order"], [id |-> 2]>>]}}
      [] o = "metrika_get_goals" ->
           Common \cup {Response(200, Object([goals |-> l])) : l \in Lists(GoalPool, MaxItems)}
      [] o = "metrika_create_goal" ->
           Common \cup {Response(200, Object([goal |-> g])) :
                          g \in {[id |-> 5, name |-> "order", type |-> "url"], [id |-> 5]}}
      [] o = "metrika_get_report" ->
           Common \cup {Response(200, Object(d)) : d \in ReportData}
      [] o = "metrika_get_report_by_time" ->
           Common \cup {Response(200, Object(d)) : d \in ByTimeData}
      [] o = "metrika_delete_counter" ->
           Common \cup {Response(200, Object([success |-> TRUE]))}

(***************************************************************************)
(* The server: one invocation at a time, from the call of a tool to its    *)
(* result.  api_client is built once, from the environment.                *)
(***************************************************************************)

NoParams == <<>>
NoOutcome == [kind |-> "none"]
Pending == [kind |-> "pending"]

\* YandexAPIClient.__init__
ClientInit ==
    /\ direct_token \in {"", "d-token"}
    /\ metrika_token \in {"", "m-token"}
    /\ unified_token \in {"", "u-token"}
    /\ client_login \in {"", "agency-client"}
    /\ use_sandbox \in BOOLEAN

CallIdle ==
    /\ pc = "idle"
    /\ op = "none"
    /\ params = NoParams
    /\ sent = <<>>
    /\ conn = "none"
    /\ resp = NoOutcome
    /\ ret = Pending

FunOff ==
    /\ fpc = "off"
    /\ fin = <<>>
    /\ fout = <<>>

Init == ClientInit /\ CallIdle /\ FunOff

\* As InvokeSend, but the client keeps the token it resolved in the slot of the
\* service-specific token.
InvokeSend_CachesToken(o, p) ==
    /\ pc = "idle"
    /\ \E b \in Build(o, p) :
         /\ b.tag = "send"
         /\ sent' = <<b.req>>
    /\ pc' = "await"
    /\ op' = o
    /\ params' = p
    /\ conn' = "open"
    /\ direct_token' = get_direct_token
    /\ UNCHANGED <<resp, ret, metrika_token, unified_token, client_login, use_sandbox,
                   funVars>>

\* A tool is called and reaches its network call: the request is sent and the
\* invocation waits at the await.
InvokeSend(o, p) ==
    /\ pc = "idle"
    /\ \E b \in Build(o, p) :
         /\ b.tag = "send"
         /\ sent' = <<b.req>>
    /\ pc' = "await"
    /\ op' = o
    /\ params' = p
    /\ conn' = "open"
    /\ UNCHANGED <<resp, ret, credVars, funVars>>

\* A tool is called and ends before any network call, by a return or by an
\* exception that its except clause hands to the classifier.
InvokeEarly(o, p) ==
    /\ pc = "idle"
    /\ \E b \in Build(o, p) :
         /\ b.tag # "send"
         /\ ret' = Result(b)
         /\ conn' = IF b.tag = "raise" THEN b.conn ELSE "none"
    /\ pc' = "done"
    /\ op' = o
    /\ params' = p
    /\ UNCHANGED <<sent, resp, credVars, funVars>>

\* As Respond, but a report that is still being generated (201, 202) makes the
\* invocation wait for the vendor again.
Respond_Polls ==
    /\ pc = "await"
    /\ op \in Ops
    /\ \E outcome \in Outcomes(op, params) :
         /\ resp' = outcome
         /\ IF outcome.kind = "response" /\ outcome.status \in {201, 202}
            THEN UNCHANGED <<pc, ret, conn>>
            ELSE /\ ret' = Result(Finish(op, params, outcome))
                 /\ conn' = AsyncWithExit(LeavesScope(op, params, outcome))
                 /\ pc' = "done"
    /\ UNCHANGED <<op, params, sent, credVars, funVars>>

\* The awaited call completes; the async with block closes the connection on
\* every way out, and the tool runs to its result.
Respond ==
    /\ pc = "await"
    /\ op \in Ops
    /\ \E outcome \in Outcomes(op, params) :
         /\ resp' = outcome
         /\ ret' = Result(Finish(op, params, outcome))
         /\ conn' = AsyncWithExit(LeavesScope(op, params, outcome))
    /\ pc' = "done"
    /\ UNCHANGED <<op, params, sent, credVars, funVars>>

\* The result has been handed to the caller; the next call starts afresh.
Reset ==
    /\ pc = "done"
    /\ pc' = "idle"
    /\ op' = "none"
    /\ params' = NoParams
    /\ sent' = <<>>
    /\ conn' = "none"
    /\ resp' = NoOutcome
    /\ ret' = Pending
    /\ UNCHANGED <<credVars, funVars>>

Next ==
    \/ \E o \in Ops : \E p \in Params(o) : InvokeSend(o, p)
    \/ \E o \in Ops : \E p \in Params(o) : InvokeEarly(o, p)
    \/ Respond
    \/ Reset

Spec == Init /\ [][Next]_vars

(***************************************************************************)
(* The pure functions on their own: an input is drawn, the function is     *)
(* applied once.  The client holds no token and no tool is invoked.        *)
(***************************************************************************)

ClientOff ==
    /\ direct_token = ""
    /\ metrika_token = ""
    /\ unified_token = ""
    /\ client_login = ""
    /\ use_sandbox = FALSE

\* ---- _handle_api_error ----
\* Every status raise_for_status raises for.
ErrorStatuses == (100..599) \ (200..299)

ErrorDicts ==
    {EmptyObj, [error_string |-> "Invalid request"], [error_detail |-> "Bad id"]}
    \cup {[error_string |-> es, error_detail |-> ed] :
            es \in {"", "Invalid request", "  "}, ed \in {"", "Bad id", " padded  "}}

VendorBodies ==
    {NotJson, NonObject, Object(EmptyObj), Object([error |-> [t |-> "str", s |-> "oops"]])}
    \cup {Object([error |-> [t |-> "dict", d |-> d]]) : d \in ErrorDicts}
    \cup {Object([error |-> [t |-> "dict", d |-> [error_string |-> "Invalid request"]],
                  request_id |-> "42"])}

OtherErrors ==
    {Exc(t, "The read operation timed out") :
       t \in {"TimeoutException", "ConnectTimeout", "ReadTimeout", "WriteTimeout", "PoolTimeout"}}
    \cup {Exc("ValueError", m) :
            m \in {"Unsupported HTTP method: PATCH", "Yandex Direct API token not configured.", ""}}
    \cup {JSONDecodeError, NotObjectError,
          Exc("KeyError", "'keyword_id'"), Exc("ConnectError", "All connection attempts failed"),
          Exc("RuntimeError", "")}

Errors == {HTTPStatusError(st, b) : st \in ErrorStatuses, b \in VendorBodies} \cup OtherErrors

InitClassify ==
    /\ ClientOff /\ CallIdle
    /\ fpc = "in"
    /\ fin \in Errors
    /\ fout = <<>>

Classify ==
    /\ fpc = "in"
    /\ fout' = handle_api_error(fin)
    /\ fpc' = "out"
    /\ UNCHANGED <<fin, credVars, callVars>>

NextClassify == Classify

SpecClassify == InitClassify /\ [][NextClassify]_vars

\* ---- the formatters ----
Formatters == {"campaigns", "ads", "adgroups", "keywords", "counters", "report", "bytime"}

FormatterPool(f) ==
    CASE f = "campaigns" -> CampaignPool
      [] f = "ads" -> AdPool
      [] f = "adgroups" -> AdGroupPool
      [] f = "keywords" -> KeywordPool
      [] f = "counters" -> CounterPool

\* A report whose "data" is rows, with or without its query and totals.
ReportWith(rows) ==
    {[data |-> rows],
     [query |-> [date1 |-> "2024-01-01", date2 |-> "2024-01-07",
                 metrics |-> <<"ym:s:visits">>],
      totals |-> <<1200, 7>>, data |-> rows]}

ReportRow == [dimensions |-> <<[t |-> "dict", d |-> [name |-> "2024-01-01"]]>>,
              metrics |-> <<1000, 5>>]
ByTimeRow == [dimensions |-> <<>>, metrics |-> << <<10, 20>>, <<1>> >>]

\* The numbers of data rows of a report tried: a few, and around the row limit.
ReportRowCounts ==
    (0..MaxItems) \cup {METRIKA_ROW_LIMIT - 1, METRIKA_ROW_LIMIT, METRIKA_ROW_LIMIT + 1}

\* Lists of records of the formatter's kind, a record without any field among them.
FormatInputs ==
    UNION {{[fmt |-> f, arg |-> l] : l \in Lists(FormatterPool(f) \cup {EmptyObj}, MaxItems)} :
             f \in Formatters \ {"report", "bytime"}}
    \cup {[fmt |-> "report", arg |-> d] :
            d \in {EmptyObj} \cup ReportData
                  \cup UNION {ReportWith([i \in 1..n |-> ReportRow]) : n \in ReportRowCounts}}
    \cup {[fmt |-> "bytime", arg |-> d, group |-> g] :
            d \in {EmptyObj} \cup ByTimeData
                  \cup {[time_intervals |-> << <<"2024-01-01", "2024-01-01">> >>,
                         data |-> [i \in 1..n |-> ByTimeRow]] : n \in ReportRowCounts},
            g \in {"day", "week"}}

ApplyFormatter(x) ==
    CASE x.fmt = "campaigns" -> format_campaigns_markdown(x.arg)
      [] x.fmt = "ads" -> format_ads_markdown(x.arg)
      [] x.fmt = "adgroups" -> format_adgroups_markdown(x.arg)
      [] x.fmt = "keywords" -> format_keywords_markdown(x.arg)
      [] x.fmt = "counters" -> format_metrika_counters_markdown(x.arg)
      [] x.fmt = "report" -> format_metrika_report_markdown(x.arg)
      [] x.fmt = "bytime" -> format_bytime_markdown(x.arg, x.group)

InitFormat ==
    /\ ClientOff /\ CallIdle
    /\ fpc = "in"
    /\ fin \in FormatInputs
    /\ fout = <<>>

Format ==
    /\ fpc = "in"
    /\ fout' = ApplyFormatter(fin)
    /\ fpc' = "out"
    /\ UNCHANGED <<fin, credVars, callVars>>

NextFormat == Format

SpecFormat == InitFormat /\ [][NextFormat]_vars

\* ---- money ----
\* The largest amount tried, in hundredths of a currency unit.
MaxHundredths == 400

InitMoney ==
    /\ ClientOff /\ CallIdle
    /\ fpc = "in"
    /\ fin \in 1..MaxHundredths
    /\ fout = <<>>

\* The amount goes into a request as micro-units and comes back through the
\* formatter of a listing.
Convert ==
    /\ fpc = "in"
    /\ \E m \in ToMicros(fin) : fout' = [micros |-> m, text |-> FormatMicros(m)]
    /\ fpc' = "out"
    /\ UNCHANGED <<fin, credVars, callVars>>

NextMoney == Convert

SpecMoney == InitMoney /\ [][NextMoney]_vars

(***************************************************************************)
(* The client called on its own: direct_request and metrika_request with   *)
(* arguments of their signatures, an HTTP method outside the four the      *)
(* analytics client dispatches on among them.                              *)
(***************************************************************************)

ClientCalls == {"direct_request", "metrika_request"}

Methods == {"GET", "POST", "PUT", "DELETE", "PATCH", "get"}

ClientParams(o) ==
    IF o = "direct_request"
    THEN {[service |-> s, method |-> "get", params |-> [SelectionCriteria |-> EmptyObj],
           use_v501 |-> v] : s \in {"campaigns", "ads"}, v \in BOOLEAN}
    ELSE {[endpoint |-> e, method |-> m, params |-> q, data |-> d] :
            e \in {"/management/v1/counters", "/stat/v1/data"},
            m \in Methods,
            q \in {None},
            d \in {None, [counter |-> [name |-> "Shop"]]}}

\* The call up to its await.
ClientBuild(o, p) ==
    IF o = "direct_request"
    THEN direct_request(p.service, p.method, p.params, p.use_v501)
    ELSE metrika_request(p.endpoint, p.method, p.params, p.data)

\* The call from its await on.
ClientFinish(o, outcome) ==
    IF o = "direct_request" THEN direct_response(outcome) ELSE metrika_response(outcome)

\* What the caller of the client gets: the payload, or the exception raised.
ClientResult(r) ==
    IF r.tag = "raise" THEN RaisedResult(r.exc) ELSE [kind |-> "value", value |-> r.value]

CallSend(o, p) ==
    /\ pc = "idle"
    /\ ClientBuild(o, p).tag = "send"
    /\ sent' = <<ClientBuild(o, p).req>>
    /\ pc' = "await"
    /\ op' = o
    /\ params' = p
    /\ conn' = "open"
    /\ UNCHANGED <<resp, ret, credVars, funVars>>

CallEarly(o, p) ==
    /\ pc = "idle"
    /\ ClientBuild(o, p).tag = "raise"
    /\ ret' = ClientResult(ClientBuild(o, p))
    /\ conn' = ClientBuild(o, p).conn
    /\ pc' = "done"
    /\ op' = o
    /\ params' = p
    /\ UNCHANGED <<sent, resp, credVars, funVars>>

CallRespond ==
    /\ pc = "await"
    /\ op \in ClientCalls
    /\ \E outcome \in Common :
         /\ resp' = outcome
         /\ ret' = ClientResult(ClientFinish(op, outcome))
         /\ conn' = AsyncWithExit(ClientFinish(op, outcome).tag)
    /\ pc' = "done"
    /\ UNCHANGED <<op, params, sent, credVars, funVars>>

NextClient ==
    \/ \E o \in ClientCalls : \E p \in ClientParams(o) : CallSend(o, p)
    \/ \E o \in ClientCalls : \E p \in ClientParams(o) : CallEarly(o, p)
    \/ CallRespond
    \/ Reset

SpecClient == Init /\ [][NextClient]_vars

\* Tools and bare client calls together.
NextAll == Next \/ NextClient

SpecAll == Init /\ [][NextAll]_vars

(***************************************************************************)
(* Concurrent invocations.  The event loop runs several tool coroutines;   *)
(* each suspends at the await of its network call and is resumed with the  *)
(* response of its own connection.  pc, op, params, sent, conn, resp, ret   *)
(* and fin hold one value per invocation slot; resp[i] is the reply the    *)
(* vendor gave on the connection of slot i, fin[i] the response the frame  *)
(* of slot i holds once it is resumed.  Between the arrival of the         *)
(* response and the return of the tool lies the close of the connection,   *)
(* at which other invocations can run.                                     *)
(***************************************************************************)

\* The number of invocations in flight at once.
MaxProcs == 2

Procs == 1..MaxProcs

ConcOps == {"direct_suspend_campaigns", "metrika_delete_counter", "direct_get_statistics"}

\* The vendor's replies tried for a concurrent invocation.
ConcOutcomes(o, p) ==
    {[kind |-> "timeout"], Response(503, NotJson)}
    \cup (CASE o \in BatchOps ->
                 {Response(200, Object(EmptyObj)),
                  Response(200, DirectBody(BatchInfo(o).key,
                                           [k \in 1..Len(p.ids) |-> [Id |-> p.ids[k]]]))}
            [] o = "direct_get_statistics" ->
                 {Response(200, TsvBody(ReportText(1, FALSE))),
                  Response(202, TsvBody(<< <<"">> >>))}
            [] OTHER ->
                 {Response(200, Object(EmptyObj)), Response(204, NotJson)})

\* response = await client.post(...): the response goes into a local variable
\* of the frame of invocation i.
Store_Shared(f, i, v) == [j \in DOMAIN f |-> v]

Store(f, i, v) == [f EXCEPT ![i] = v]

InitConc ==
    /\ direct_token \in {"", "d-token"}
    /\ metrika_token = "m-token"
    /\ unified_token = ""
    /\ client_login = ""
    /\ use_sandbox = FALSE
    /\ pc = [i \in Procs |-> "idle"]
    /\ op = [i \in Procs |-> "none"]
    /\ params = [i \in Procs |-> NoParams]
    /\ sent = [i \in Procs |-> <<>>]
    /\ conn = [i \in Procs |-> "none"]
    /\ resp = [i \in Procs |-> NoOutcome]
    /\ ret = [i \in Procs |-> Pending]
    /\ fin = [i \in Procs |-> NoOutcome]
    /\ fpc = "off"
    /\ fout = <<>>

\* A request that carries a trace of the invocations in progress.
ConcInvokeSend_CountsCalls(i, o, p) ==
    /\ pc[i] = "idle"
    /\ \E b \in Build(o, p) :
         /\ b.tag = "send"
         /\ sent' = [sent EXCEPT ![i] = <<[b.req EXCEPT !.timeout =
                        @ + Cardinality({j \in Procs : pc[j] # "idle"})]>>]
    /\ pc' = [pc EXCEPT ![i] = "await"]
    /\ op' = [op EXCEPT ![i] = o]
    /\ params' = [params EXCEPT ![i] = p]
    /\ conn' = [conn EXCEPT ![i] = "open"]
    /\ UNCHANGED <<resp, ret, credVars, funVars>>

ConcInvokeSend(i, o, p) ==
    /\ pc[i] = "idle"
    /\ \E b \in Build(o, p) :
         /\ b.tag = "send"
         /\ sent' = [sent EXCEPT ![i] = <<b.req>>]
    /\ pc' = [pc EXCEPT ![i] = "await"]
    /\ op' = [op EXCEPT ![i] = o]
    /\ params' = [params EXCEPT ![i] = p]
    /\ conn' = [conn EXCEPT ![i] = "open"]
    /\ UNCHANGED <<resp, ret, credVars, funVars>>

ConcInvokeEarly(i, o, p) ==
    /\ pc[i] = "idle"
    /\ \E b \in Build(o, p) :
         /\ b.tag # "send"
         /\ ret' = [ret EXCEPT ![i] = Result(b)]
    /\ pc' = [pc EXCEPT ![i] = "done"]
    /\ op' = [op EXCEPT ![i] = o]
    /\ params' = [params EXCEPT ![i] = p]
    /\ UNCHANGED <<sent, conn, resp, credVars, funVars>>

\* The reply arrives on the connection of invocation i and its coroutine is
\* resumed with it.
ConcResume(i) ==
    /\ pc[i] = "await"
    /\ \E outcome \in ConcOutcomes(op[i], params[i]) :
         /\ resp' = [resp EXCEPT ![i] = outcome]
         /\ fin' = Store(fin, i, outcome)
    /\ pc' = [pc EXCEPT ![i] = "resumed"]
    /\ UNCHANGED <<op, params, sent, conn, ret, credVars, fpc, fout>>

\* The connection is closed and the tool runs to its result.
ConcReturn(i) ==
    /\ pc[i] = "resumed"
    /\ ret' = [ret EXCEPT ![i] = Result(Finish(op[i], params[i], fin[i]))]
    /\ conn' = [conn EXCEPT ![i] = AsyncWithExit(LeavesScope(op[i], params[i], fin[i]))]
    /\ pc' = [pc EXCEPT ![i] = "done"]
    /\ UNCHANGED <<op, params, sent, resp, credVars, funVars>>

ConcReset(i) ==
    /\ pc[i] = "done"
    /\ pc' = [pc EXCEPT ![i] = "idle"]
    /\ op' = [op EXCEPT ![i] = "none"]
    /\ params' = [params EXCEPT ![i] = NoParams]
    /\ sent' = [sent EXCEPT ![i] = <<>>]
    /\ conn' = [conn EXCEPT ![i] = "none"]
    /\ resp' = [resp EXCEPT ![i] = NoOutcome]
    /\ ret' = [ret EXCEPT ![i] = Pending]
    /\ fin' = [fin EXCEPT ![i] = NoOutcome]
    /\ UNCHANGED <<credVars, fpc, fout>>

NextConc ==
    \/ \E i \in Procs : \E o \in ConcOps : \E p \in Params(o) : ConcInvokeSend(i, o, p)
    \/ \E i \in Procs : \E o \in ConcOps : \E p \in Params(o) : ConcInvokeEarly(i, o, p)
    \/ \E i \in Procs : ConcResume(i)
    \/ \E i \in Procs : ConcReturn(i)
    \/ \E i \in Procs : ConcReset(i)

SpecConc == InitConc /\ [][NextConc]_vars

(***************************************************************************)
(* The tools with a network that answers: the awaited call of an           *)
(* invocation completes, fails or times out (httpx ends the call after     *)
(* DEFAULT_TIMEOUT, the report request after REPORT_TIMEOUT).              *)
(***************************************************************************)

SpecLive == Spec /\ WF_vars(Respond)

(***************************************************************************)
(* Properties                                                              *)
(***************************************************************************)

EndsWith(s, q) == Len(s) >= Len(q) /\ SubSeq(s, Len(s) - Len(q) + 1, Len(s)) = q

\* The invocation is over and returned the text made of these lines.
Returned(lines) == pc = "done" /\ ret = StrResult("text", lines)

\* The vendor answered the invocation with an HTTP response of this status.
Answered(status) == resp.kind = "response" /\ resp.status = status

\* C1: every invocation, whatever the input and the vendor outcome, ends by
\* returning a string: no exception reaches the caller and the value returned
\* is never a non-string such as None.
C1_AlwaysReturnsString == pc = "done" => ret.kind = "str"

\* The token of the service of the invoked operation is missing.
DirectTokenMissing == direct_token = "" /\ unified_token = ""
MetrikaTokenMissing == metrika_token = "" /\ unified_token = ""
TokenMissing == IF op \in MetrikaOps THEN MetrikaTokenMissing ELSE DirectTokenMissing

BeginsConfigurationError ==
    /\ ret.kind = "str"
    /\ ret.lines # <<>>
    /\ StartsWith(ret.lines[1], "Configuration Error: ")

\* The text-ad update names no field to change (each is absent or empty).
NoFieldToUpdate ==
    /\ op = "direct_update_ad"
    /\ \A f \in {"title", "title2", "text", "href"} : params[f] \in {None, Some("")}

\* An item of the keyword bids has no keyword_id.
BidWithoutKeywordId ==
    /\ op = "direct_set_keyword_bids"
    /\ \E i \in 1..Len(params.keyword_bids) : "keyword_id" \notin DOMAIN params.keyword_bids[i]

\* C2 as stated: with the token of the operation's service missing, the result
\* begins "Configuration Error: " and no network call is attempted.
C2_MissingTokenIsConfigurationError ==
    (pc # "idle" /\ TokenMissing) =>
        /\ pc = "done"
        /\ sent = <<>>
        /\ BeginsConfigurationError

\* C2 amended: with the token of the operation's service missing, no network
\* call is attempted and no connection is opened; the result begins
\* "Configuration Error: " except where the operation ends before the client
\* checks the token: the text-ad update with no field to change returns "No
\* fields specified for update.", and the keyword-bid update with an item that
\* lacks keyword_id returns "Unexpected error: KeyError: 'keyword_id'".
C2_MissingTokenNoNetworkCall ==
    (pc # "idle" /\ TokenMissing) =>
        /\ pc = "done"
        /\ sent = <<>>
        /\ conn = "none"
        /\ resp = NoOutcome
        /\ CASE NoFieldToUpdate -> ret = StrResult("text", <<"No fields specified for update.">>)
             [] BidWithoutKeywordId ->
                  ret = StrResult("text", <<"Unexpected error: KeyError: 'keyword_id'">>)
             [] OTHER -> BeginsConfigurationError

\* C2 witness: an operation invoked without its token has ended with the
\* configuration error and nothing was sent.
C2_Witness ==
    /\ pc = "done"
    /\ TokenMissing
    /\ op = "direct_suspend_campaigns"
    /\ sent = <<>>
    /\ ret = StrResult("text",
                       <<"Configuration Error: Yandex Direct API token not configured. "
                         \o "Set YANDEX_DIRECT_TOKEN or YANDEX_TOKEN environment variable.">>)

\* The batch operations the claim names: suspend, resume, archive and delete
\* of campaigns and of ads.
C3_Ops == {"direct_suspend_campaigns", "direct_resume_campaigns", "direct_archive_campaigns",
           "direct_delete_campaigns", "direct_suspend_ads", "direct_resume_ads",
           "direct_archive_ads", "direct_delete_ads"}

\* The vendor's list has one result per id, each a success (an Id, no errors)
\* or a refusal (no Id, one error).
IsSuccessItem(r) == "Id" \in DOMAIN r /\ "Errors" \notin DOMAIN r
IsRefusalItem(r) == "Id" \notin DOMAIN r /\ "Errors" \in DOMAIN r /\ Len(r["Errors"]) = 1
C3_Results == resp.body.obj["result"][BatchInfo(op).key]
C3_Case ==
    /\ pc = "done"
    /\ op \in C3_Ops
    /\ Answered(200)
    /\ resp.body.shape = "object"
    /\ "result" \in DOMAIN resp.body.obj
    /\ Len(C3_Results) = Len(params.ids)
    /\ \A i \in 1..Len(C3_Results) : IsSuccessItem(C3_Results[i]) \/ IsRefusalItem(C3_Results[i])

\* The lines of the reply that itemize an error.
ErrorLineCount(lines) == Cardinality({i \in 1..Len(lines) : StartsWith(lines[i], "- ID ")})

\* C3: for N ids of which the vendor reports K successes and N-K refusals, the
\* summary line carries the count K and the reply has exactly N-K itemized
\* error lines.
C3_CountsAndErrorLines ==
    C3_Case =>
        LET K == Cardinality({i \in 1..Len(C3_Results) : IsSuccessItem(C3_Results[i])})
            N == Len(params.ids)
        IN /\ ret.kind = "str"
           /\ ret.lines[1] = BatchInfo(op).pre \o ToString(K) \o BatchInfo(op).post
           /\ ErrorLineCount(ret.lines) = N - K

\* The number of lines of a TSV text that are not blank.
RECURSIVE NonBlankCount(_)
NonBlankCount(text) ==
    IF text = <<>> THEN 0
    ELSE (IF \E i \in 1..Len(Head(text)) : Head(text)[i] # "" THEN 1 ELSE 0)
         + NonBlankCount(Tail(text))

\* The lines of a markdown reply that are rows of its table, the heading row and
\* the rule below it included.
TableLineCount(lines) == Cardinality({i \in 1..Len(lines) : StartsWith(lines[i], "| ")})

HasTrailer(lines) == \E i \in 1..Len(lines) : StartsWith(lines[i], "*...and ")

\* C4: statistics report, status 200.  A body of fewer than two lines gives
\* exactly "No data found for the specified period."; a body with a header and
\* n data lines, asked for as markdown, gives a table of exactly min(n, 100)
\* data rows, with the trailer "...and (n-100) more rows" if and only if
\* n > 100.
C4_StatisticsTable ==
    (pc = "done" /\ op = "direct_get_statistics" /\ Answered(200)) =>
        LET n == NonBlankCount(resp.body.text) - 1
        IN IF n < 1
           THEN ret = StrResult("text", <<"No data found for the specified period.">>)
           ELSE params.response_format = "markdown" =>
                  /\ ret.kind = "str"
                  /\ ret.form = "text"
                  /\ TableLineCount(ret.lines) = 2 + (IF n < 100 THEN n ELSE 100)
                  /\ HasTrailer(ret.lines) <=> n > 100
                  /\ n > 100 =>
                       ret.lines[Len(ret.lines)]
                         = "*...and " \o ToString(n - 100) \o " more rows*"

\* C4 witness: a report of a header and 101 data lines came back as a table of
\* 100 rows and the trailer "...and 1 more rows".
C4_Witness ==
    /\ pc = "done"
    /\ op = "direct_get_statistics"
    /\ Answered(200)
    /\ params.response_format = "markdown"
    /\ NonBlankCount(resp.body.text) = 102
    /\ ret.kind = "str"
    /\ TableLineCount(ret.lines) = 102
    /\ ret.lines[Len(ret.lines)] = "*...and 1 more rows*"

\* The formatter was given no entity: an empty list, or a report with no rows.
EmptyFormatterInput ==
    IF fin.fmt \in {"report", "bytime"}
    THEN "data" \notin DOMAIN fin.arg \/ fin.arg["data"] = <<>>
    ELSE fin.arg = <<>>

\* C5: every formatter, given an empty collection, returns the one sentence
\* "No <entity kind> found." and not an empty body or a header-only report.
C5_EmptyGivesFixedSentence ==
    (fpc = "out" /\ EmptyFormatterInput) =>
        /\ Len(fout) = 1
        /\ StartsWith(fout[1], "No ")
        /\ EndsWith(fout[1], " found.")

\* The campaign listing was asked for as JSON and the vendor answered with a
\* list of campaigns.
C6_Case ==
    /\ pc = "done"
    /\ op = "direct_get_campaigns"
    /\ params.response_format = "json"
    /\ Answered(200)
    /\ resp.body.shape = "object"
    /\ "result" \in DOMAIN resp.body.obj
    /\ "Campaigns" \in DOMAIN resp.body.obj["result"]

C6_Campaigns == resp.body.obj["result"]["Campaigns"]

\* json.loads of the text of a listing: the object it denotes, or <<>> when the
\* tokens are not of that form.  An item is read back as the token that wrote it.
LoadsListing(tokens, key) ==
    LET n == Len(tokens)
    IN IF /\ n >= 7
          /\ SubSeq(tokens, 1, 3) = <<"{", "\"" \o key \o "\":", "[">>
          /\ tokens[n - 3] = "]"
          /\ tokens[n - 2] = "\"total\":"
          /\ tokens[n] = "}"
       THEN [items |-> SubSeq(tokens, 4, n - 4), total |-> tokens[n - 1]]
       ELSE <<>>

\* C6: the JSON reply of the campaign listing deserializes to an object whose
\* "campaigns" is the vendor's list, same items in the same order, and whose
\* "total" is the length m of that list.
C6_JsonListing ==
    C6_Case =>
        /\ ret.kind = "str"
        /\ ret.form = "json"
        /\ LoadsListing(ret.lines, "campaigns")
             = [items |-> [i \in 1..Len(C6_Campaigns) |-> ToString(C6_Campaigns[i])],
                total |-> ToString(Len(C6_Campaigns))]

\* C6 witness: two different campaigns came back, in the vendor's order.
C6_Witness ==
    /\ C6_Case
    /\ Len(C6_Campaigns) = 2
    /\ C6_Campaigns[1] # C6_Campaigns[2]
    /\ LoadsListing(ret.lines, "campaigns").total = "2"
    /\ LoadsListing(ret.lines, "campaigns").items[1] = ToString(C6_Campaigns[1])

C7_Deleted == "Counter " \o ToString(params.counter_id) \o " deleted successfully."

\* C7: counter deletion.  On 204 the client returns {success: true} without
\* reading the body (the body of a 204 is empty, not JSON) and the result is
\* exactly "Counter c deleted successfully."; on any non-2xx answer the result
\* is the classifier's upstream-error string and never the success sentence.
C7_CounterDeletion ==
    /\ metrika_response(Response(204, NotJson)) = Ok(Object([success |-> TRUE]))
    /\ (pc = "done" /\ op = "metrika_delete_counter" /\ resp.kind = "response") =>
         /\ resp.status = 204 => ret = StrResult("text", <<C7_Deleted>>)
         /\ ~(resp.status >= 200 /\ resp.status <= 299) =>
              /\ ret.kind = "str"
              /\ Len(ret.lines) = 1
              /\ StartsWith(ret.lines[1], "API Error")
              /\ ret.lines[1] # C7_Deleted

\* C7 witness: the vendor answered 204 with an empty body and the counter is
\* reported deleted.
C7_Witness ==
    /\ pc = "done"
    /\ op = "metrika_delete_counter"
    /\ Answered(204)
    /\ resp.body = NotJson
    /\ params.counter_id = 12345
    /\ ret = StrResult("text", <<"Counter 12345 deleted successfully.">>)

\* C8: an amount with two decimals, sent as micro-units and shown again by the
\* formatter, reads as the amount itself (150 hundredths: "1.50").
C8_MoneyRoundTrip ==
    fpc = "out" =>
        /\ fout.text = ToString(fin \div 100) \o "."
                       \o (IF fin % 100 < 10 THEN "0" ELSE "") \o ToString(fin % 100)
        /\ fin = 150 => fout.text = "1.50"

\* C8 witness: 2.01 was truncated to 2009999 micro-units and still reads "2.01".
C8_Witness ==
    /\ fpc = "out"
    /\ fin = 201
    /\ fout.micros = 2009999
    /\ fout.text = "2.01"

\* C9: the classifier returns a string for every error value, raises nothing
\* and does no I/O: nothing is sent and no connection exists.
C9_ClassifierTotal ==
    fpc = "out" =>
        /\ ~fout.raised
        /\ fout.value \in STRING
        /\ sent = <<>>
        /\ conn = "none"

\* C9 witness: an upstream error whose body is not JSON was classified.
C9_Witness ==
    /\ fpc = "out"
    /\ fin.type = "HTTPStatusError"
    /\ fin.status = 418
    /\ fin.body = NotJson
    /\ fout = [raised |-> FALSE, value |-> "API Error: Request failed with status 418"]

\* The error string and detail the vendor body carries, "" when the body does
\* not parse to an object with an "error" object holding them.
C10_Field(body, key) ==
    IF /\ body.shape = "object"
       /\ "error" \in DOMAIN body.obj
       /\ body.obj["error"].t = "dict"
       /\ key \in DOMAIN body.obj["error"].d
    THEN body.obj["error"].d[key]
    ELSE ""

AllSpaces(s) == \A k \in 1..Len(s) : SubSeq(s, k, k) = " "

\* t is s without its leading and trailing spaces.
IsTrimOf(t, s) ==
    /\ \E a \in 0..Len(s) :
         /\ a + Len(t) <= Len(s)
         /\ SubSeq(s, a + 1, a + Len(t)) = t
         /\ AllSpaces(SubSeq(s, 1, a))
         /\ AllSpaces(SubSeq(s, a + Len(t) + 1, Len(s)))
    /\ t # "" => SubSeq(t, 1, 1) # " " /\ SubSeq(t, Len(t), Len(t)) # " "

\* The canned message of a status.
C10_Canned(status) ==
    CASE status = 400 -> "Bad request. Check your parameters."
      [] status = 401 -> "Authentication failed. Check your API token."
      [] status = 403 -> "Access denied. Check permissions for this operation."
      [] status = 404 -> "Resource not found. Check the ID."
      [] status = 429 -> "Rate limit exceeded. Wait before making more requests."
      [] status = 500 -> "Server error. Try again later."
      [] status = 503 -> "Service unavailable. Try again later."
      [] OTHER -> "Request failed with status " \o ToString(status)

C10_VendorText ==
    "API Error (" \o ToString(fin.status) \o "): " \o C10_Field(fin.body, "error_string")
    \o ". " \o C10_Field(fin.body, "error_detail")

\* C10 as stated: on an upstream error with a non-empty error string the result
\* is "API Error (<status>): <error_string>. <error_detail>" trimmed; otherwise
\* the result is the canned message of the status, "Request failed with status
\* <status>" for a status without one.
C10_ResultIsCannedMessage ==
    (fpc = "out" /\ fin.type = "HTTPStatusError") =>
        /\ ~fout.raised
        /\ IF C10_Field(fin.body, "error_string") # ""
           THEN IsTrimOf(fout.value, C10_VendorText)
           ELSE fout.value = C10_Canned(fin.status)

\* C10 amended: as stated, except that the canned message is not the whole
\* result: the result is "API Error: " followed by the canned message.
C10_UpstreamMessages ==
    (fpc = "out" /\ fin.type = "HTTPStatusError") =>
        /\ ~fout.raised
        /\ IF C10_Field(fin.body, "error_string") # ""
           THEN IsTrimOf(fout.value, C10_VendorText)
           ELSE fout.value = "API Error: " \o C10_Canned(fin.status)

\* C10 witness: a 429 whose body carries no error string got the canned
\* message of 429.
C10_Witness ==
    /\ fpc = "out"
    /\ fin.type = "HTTPStatusError"
    /\ fin.status = 429
    /\ fin.body = Object(EmptyObj)
    /\ fout.value = "API Error: Rate limit exceeded. Wait before making more requests."

\* The fixed message of a timeout.
TimedOutMessage == "Request timed out. The operation may still complete on the server."

\* C11: the classifier on an error that is not an upstream error: a timeout
\* gives the fixed message saying the operation may still complete on the
\* server; a configuration error (the ValueError the client raises for a
\* missing token or an unsupported method) gives "Configuration Error:
\* <message>"; every other error, the decoding error of a malformed vendor
\* payload included, gives "Unexpected error: <kind>: <message>".
C11_NonUpstreamMessages ==
    (fpc = "out" /\ fin.type # "HTTPStatusError") =>
        /\ ~fout.raised
        /\ fout.value =
             CASE fin.type \in {"TimeoutException", "ConnectTimeout", "ReadTimeout",
                                "WriteTimeout", "PoolTimeout"} -> TimedOutMessage
               [] fin.type = "ValueError" -> "Configuration Error: " \o fin.msg
               [] OTHER -> "Unexpected error: " \o fin.type \o ": " \o fin.msg

\* C12: an invocation whose result begins "Configuration Error:" sent no
\* network request.
C12_ConfigurationErrorSentNothing ==
    (pc = "done" /\ BeginsConfigurationError) => sent = <<>>

\* The invocation ended on a timeout of its network call.
TimedOut == pc = "done" /\ resp.kind = "timeout"

\* The invocation ended on an answer whose status is not 2xx.
UpstreamFailed == pc = "done" /\ resp.kind = "response" /\ ~Is2xx(resp.status)

\* The string the classifier gives for the upstream error of the answer.
UpstreamErrorText == handle_api_error(HTTPStatusError(resp.status, resp.body)).value

\* C13: no retry.  An invocation sends at most one network request; when that
\* request ends in a timeout or in an upstream error it stays the only one and
\* the invocation's result is the classifier's string for that failure.
C13_NoRetry ==
    /\ Len(sent) <= 1
    /\ TimedOut => (Len(sent) = 1 /\ ret = StrResult("text", <<TimedOutMessage>>))
    /\ UpstreamFailed => (Len(sent) = 1 /\ ret = StrResult("text", <<UpstreamErrorText>>))

\* C13 witness: a 503 without a vendor message ended the invocation with the
\* canned text of 503, one request sent.
C13_Witness ==
    /\ UpstreamFailed
    /\ resp.status = 503
    /\ Len(sent) = 1
    /\ ret = StrResult("text", <<"API Error: Service unavailable. Try again later.">>)

\* C14: the connection an invocation opens is closed when the invocation has
\* returned, however it left the connection's scope (payload returned, upstream
\* error, timeout, unsupported method, a return inside the scope), and no
\* connection is open between invocations.
C14_ConnectionScoped ==
    /\ pc = "done" => conn \in {"none", "closed"}
    /\ (pc = "done" /\ sent # <<>>) => conn = "closed"
    /\ pc = "idle" => conn = "none"

\* C14 witness: the statistics report returned "still generating" from inside
\* the connection's scope and the connection is closed.
C14_Witness ==
    /\ pc = "done"
    /\ op = "direct_get_statistics"
    /\ Answered(202)
    /\ ret.kind = "str"
    /\ conn = "closed"

\* The result invocation slot i gives when it runs alone: the single-invocation
\* model applied to its operation, its input and the vendor's reply to it.
IsResultAlone(i) ==
    IF sent[i] = <<>>
    THEN \E b \in Build(op[i], params[i]) : b.tag # "send" /\ ret[i] = Result(b)
    ELSE ret[i] = Result(Finish(op[i], params[i], resp[i]))

\* C15: whatever other invocations do around its suspension, a finished
\* invocation's result is the one it gives when run alone against the same
\* vendor response, and its request went out on a connection of its own.
C15_ConcurrentIndependent ==
    \A i \in Procs : pc[i] = "done" => IsResultAlone(i)

\* C15 witness: two invocations were in flight together, got different replies
\* and ended with different results, each its own.
C15_Witness ==
    /\ pc[1] = "done" /\ pc[2] = "done"
    /\ op[1] = op[2] /\ params[1] = params[2]
    /\ resp[1].kind = "timeout" /\ resp[2].kind = "response" /\ resp[2].status = 200
    /\ ret[1] # ret[2]
    /\ IsResultAlone(1) /\ IsResultAlone(2)

\* C16: the credentials are read once, at start-up: no step of any invocation,
\* successful or failed, changes the ads token, the analytics token, the
\* unified token, the sub-account login or the sandbox flag; and once a result
\* has been handed over nothing of the invocation is left: the next call starts
\* from the state the first one started from.
C16_CredentialsImmutable ==
    [][/\ credVars' = credVars
       /\ pc' = "idle" => CallIdle']_vars

\* C16 witness: an invocation that fell back to the unified token has failed on
\* a timeout.
C16_Witness ==
    /\ TimedOut
    /\ direct_token = ""
    /\ unified_token = "u-token"
    /\ op \notin MetrikaOps

\* The operation invoked talks to the analytics service.
OfMetrika == op \in MetrikaOps \cup {"metrika_request"}

\* The token of the invoked operation's service, by the rule of the claim.
ResolvedToken ==
    IF OfMetrika
    THEN (IF metrika_token # "" THEN metrika_token
          ELSE IF unified_token # "" THEN unified_token ELSE "")
    ELSE (IF direct_token # "" THEN direct_token
          ELSE IF unified_token # "" THEN unified_token ELSE "")

\* The call of the client names one of the methods the client can send.
SupportedCall ==
    op = "direct_request" \/ params.method \in {"GET", "POST", "PUT", "DELETE"}

StillGenerating == "Report is being generated. Please try again in a few seconds."

\* C18: the statistics report by vendor status.  201 and 202 give the "still
\* generating" message, which is no string of the error classifier; 200 is read
\* as TSV: the reply is "No data found ...", the JSON rows, or the markdown
\* report whose table is headed by the columns of the body's first line; every
\* status that is not 2xx gives the classifier's string for the upstream error
\* of that status and body.
C18_StatisticsStatuses ==
    (pc = "done" /\ op = "direct_get_statistics" /\ resp.kind = "response") =>
        CASE resp.status \in {201, 202} -> ret = StrResult("text", <<StillGenerating>>)
          [] resp.status = 200 ->
               /\ ret.kind = "str"
               /\ \/ ret.form = "json"
                  \/ ret.lines = <<"No data found for the specified period.">>
                  \/ /\ Len(ret.lines) >= 6
                     /\ ret.lines[1] = "# Direct Statistics Report"
                     /\ ret.lines[6] = "| " \o Join(resp.body.text[1], " | ") \o " |"
          [] ~Is2xx(resp.status) ->
               /\ ret = StrResult("text", <<UpstreamErrorText>>)
               /\ StartsWith(UpstreamErrorText, "API Error")
          [] OTHER -> TRUE

\* C18 witness: the vendor answered 201 and the invocation returned the "still
\* generating" message.
C18_Witness ==
    /\ pc = "done"
    /\ op = "direct_get_statistics"
    /\ Answered(201)
    /\ ret = StrResult("text", <<StillGenerating>>)

\* An analytics call that got past the check of the token.
AnalyticsCall == pc # "idle" /\ op = "metrika_request" /\ ~MetrikaTokenMissing

\* C19: the analytics client, its token resolved.  With a method outside GET,
\* POST, PUT, DELETE the call fails with the client's ValueError, which the
\* classifier reports as a configuration error, and no request is sent; with
\* one of the four methods exactly one request is sent, with that verb, to the
\* analytics base URL followed by the endpoint, carrying "Authorization: OAuth
\* <token>".
C19_AnalyticsMethods ==
    AnalyticsCall =>
        IF params.method \in {"GET", "POST", "PUT", "DELETE"}
        THEN /\ Len(sent) = 1
             /\ sent[1].verb = params.method
             /\ sent[1].url = "https://api-metrika.yandex.net" \o params.endpoint
             /\ sent[1].headers["Authorization"]
                  = "OAuth " \o (IF metrika_token # "" THEN metrika_token ELSE unified_token)
        ELSE /\ pc = "done"
             /\ sent = <<>>
             /\ resp = NoOutcome
             /\ ret = RaisedResult(Exc("ValueError",
                                       "Unsupported HTTP method: " \o params.method))
             /\ handle_api_error(ret.exc).value
                  = "Configuration Error: Unsupported HTTP method: " \o params.method

\* C19 witness: a PUT went out, and only it.
C19_Witness ==
    /\ AnalyticsCall
    /\ params.method = "PUT"
    /\ params.endpoint = "/management/v1/counters"
    /\ sent # <<>>
    /\ sent[1].verb = "PUT"
    /\ sent[1].url = "https://api-metrika.yandex.net/management/v1/counters"

\* C20: an invocation that has issued its network call returns: the step that
\* follows the call's outcome ends the invocation (it does not wait again and
\* does not loop), and given that the call completes, fails or times out, the
\* invocation eventually has its result.
C20_Termination ==
    /\ [][pc = "await" => pc' = "done"]_vars
    /\ (pc = "await") ~> (pc = "done")

\* C20 witness: the network call failed to connect and the invocation has
\* returned the classifier's string.
C20_Witness ==
    /\ pc = "done"
    /\ resp.kind = "connect_error"
    /\ Len(sent) = 1
    /\ ret = StrResult("text", <<"Unexpected error: ConnectError: All connection attempts failed">>)

\* The invocation asked for the alternate version of the ads API (no tool does;
\* a call of direct_request can).
AlternateRequested == op = "direct_request" /\ params.use_v501

\* The ads host by the rule of the claim.
AdsHost ==
    IF use_sandbox THEN "https://api-sandbox.direct.yandex.com/json/v5"
    ELSE IF AlternateRequested THEN "https://api.direct.yandex.com/json/v501"
    ELSE "https://api.direct.yandex.com/json/v5"

\* C21: a request to the ads service goes to the sandbox host whenever the
\* sandbox flag is set, whatever the alternate-version argument; otherwise to
\* the alternate-version production host when that version is requested,
\* otherwise to the production host; the host is followed by "/" and the
\* service.  The statistics report goes to the non-alternate choice followed by
\* "/reports".
C21_AdsBaseUrl ==
    \A k \in 1..Len(sent) :
        sent[k].api # "metrika" =>
            /\ StartsWith(sent[k].url, AdsHost \o "/")
            /\ op = "direct_request" => sent[k].url = AdsHost \o "/" \o params.service
            /\ op = "direct_get_statistics" => sent[k].url = AdsHost \o "/reports"

\* C21 witness: the alternate version was requested with the sandbox flag set,
\* and the request went to the sandbox host.
C21_Witness ==
    /\ op = "direct_request"
    /\ use_sandbox
    /\ params.use_v501
    /\ Len(sent) = 1
    /\ sent[1].url = "https://api-sandbox.direct.yandex.com/json/v5/" \o params.service

\* The optional input fields of an operation: those whose value may be None.
OptionalFields(o) ==
    CASE o = "direct_get_campaigns" -> {"campaign_ids", "states", "statuses", "types"}
      [] o = "direct_get_adgroups" -> {"campaign_ids", "adgroup_ids"}
      [] o = "direct_get_ads" -> {"campaign_ids", "adgroup_ids", "ad_ids", "states", "statuses"}
      [] o = "direct_get_keywords" -> {"campaign_ids", "adgroup_ids", "keyword_ids"}
      [] o = "direct_update_campaign" ->
           {"name", "daily_budget_amount", "daily_budget_mode", "start_date", "end_date",
            "negative_keywords"}
      [] o = "direct_update_adgroup" ->
           {"name", "region_ids", "negative_keywords", "tracking_params"}
      [] o = "direct_update_ad" -> {"title", "title2", "text", "href"}
      [] o = "direct_create_adgroup" -> {"negative_keywords"}
      [] o = "direct_create_text_ad" -> {"title2"}
      [] o = "direct_add_keywords" -> {"bid"}
      [] o = "direct_get_statistics" -> {"campaign_ids"}
      [] o = "metrika_get_counters" -> {"favorite", "search_string"}
      [] o = "metrika_get_report" -> {"dimensions", "date1", "date2", "filters", "sort"}
      [] o = "metrika_get_report_by_time" -> {"dimensions", "date1", "date2"}
      [] OTHER -> {}

\* Where the entry derived from input field f of operation o sits in the
\* payload of the vendor request: the keys and list positions leading to it.
FieldPath(o, f) ==
    CASE o = "direct_get_campaigns" ->
           <<"SelectionCriteria",
             CASE f = "campaign_ids" -> "Ids" [] f = "states" -> "States"
               [] f = "statuses" -> "Statuses" [] f = "types" -> "Types">>
      [] o = "direct_get_adgroups" ->
           <<"SelectionCriteria",
             CASE f = "campaign_ids" -> "CampaignIds" [] f = "adgroup_ids" -> "Ids">>
      [] o = "direct_get_ads" ->
           <<"SelectionCriteria",
             CASE f = "campaign_ids" -> "CampaignIds" [] f = "adgroup_ids" -> "AdGroupIds"
               [] f = "ad_ids" -> "Ids" [] f = "states" -> "States"
               [] f = "statuses" -> "Statuses">>
      [] o = "direct_get_keywords" ->
           <<"SelectionCriteria",
             CASE f = "campaign_ids" -> "CampaignIds" [] f = "adgroup_ids" -> "AdGroupIds"
               [] f = "keyword_ids" -> "Ids">>
      [] o = "direct_update_campaign" ->
           <<"Campaigns", 1>>
           \o (CASE f = "name" -> <<"Name">>
                 [] f = "daily_budget_amount" -> <<"DailyBudget", "Amount">>
                 [] f = "daily_budget_mode" -> <<"DailyBudget", "Mode">>
                 [] f = "start_date" -> <<"StartDate">>
                 [] f = "end_date" -> <<"EndDate">>
                 [] f = "negative_keywords" -> <<"NegativeKeywords">>)
      [] o = "direct_update_adgroup" ->
           <<"AdGroups", 1,
             CASE f = "name" -> "Name" [] f = "region_ids" -> "RegionIds"
               [] f = "negative_keywords" -> "NegativeKeywords"
               [] f = "tracking_params" -> "TrackingParams">>
      [] o = "direct_update_ad" ->
           <<"Ads", 1, "TextAd",
             CASE f = "title" -> "Title" [] f = "title2" -> "Title2"
               [] f = "text" -> "Text" [] f = "href" -> "Href">>
      [] o = "direct_create_adgroup" -> <<"AdGroups", 1, "NegativeKeywords">>
      [] o = "direct_create_text_ad" -> <<"Ads", 1, "TextAd", "Title2">>
      [] o = "direct_add_keywords" -> <<"Keywords", 1, "Bid">>
      [] o = "direct_get_statistics" -> <<"SelectionCriteria", "Filter">>
      [] OTHER -> <<f>>

\* The payload of a vendor request: the params of the JSON body of an ads
\* request, the query of an analytics request.
Payload(req) == IF req.api = "metrika" THEN req.params ELSE req.json.params

\* The value v has an entry at the end of the path.
RECURSIVE HasPath(_, _)
HasPath(v, path) ==
    IF path = <<>> THEN TRUE
    ELSE Head(path) \in DOMAIN v /\ HasPath(v[Head(path)], Tail(path))

\* The request sent holds an entry derived from input field f.
InRequest(f) == HasPath(Payload(sent[1]), FieldPath(op, f))

\* C22: for every operation and every optional input field left absent, the
\* vendor request holds no entry derived from the field: none with null and
\* none with a default value.
C22_AbsentFieldsOmitted ==
    (op \in Ops /\ sent # <<>>) =>
        \A f \in OptionalFields(op) : params[f] = None => ~InRequest(f)

\* The text of the reply to an update that the vendor accepted.
UpdatedSuccessfully ==
    /\ pc = "done"
    /\ op \in UpdateOps
    /\ ret.kind = "str"
    /\ ret.lines # <<>>
    /\ \E k \in 1..Len(ret.lines[1]) :
         SubSeq(ret.lines[1], k, Len(ret.lines[1])) = " updated successfully."
         \/ StartsWith(SubSeq(ret.lines[1], k, Len(ret.lines[1])), " updated successfully. ")

\* C29: for the update operations (campaign, ad group, text ad) a reply of
\* "<entity> <id> updated successfully." means that every optional field the
\* caller supplied with a non-null value (a budget mode without an amount and
\* an empty name included) was part of the request sent.
C29_SuppliedFieldsSent ==
    UpdatedSuccessfully =>
        /\ Len(sent) = 1
        /\ \A f \in OptionalFields(op) : params[f] # None => InRequest(f)

\* The analytics tabular report came back and was rendered as markdown.
ReportRendered ==
    /\ pc = "done"
    /\ op = "metrika_get_report"
    /\ params.response_format = "markdown"
    /\ Answered(200)
    /\ resp.body.shape = "object"

\* The lines of a reply that follow the line "## Totals", up to the next empty
\* line.
TotalsLines(lines) ==
    IF \E k \in 1..Len(lines) : lines[k] = "## Totals"
    THEN LET k == CHOOSE j \in 1..Len(lines) : lines[j] = "## Totals"
             e == CHOOSE j \in (k + 1)..Len(lines) :
                    lines[j] = "" /\ \A h \in (k + 1)..(j - 1) : lines[h] # ""
         IN SubSeq(lines, k + 1, e - 1)
    ELSE <<>>

LinesFrom(lines, k) == SubSeq(lines, k, Len(lines))

\* The number of data rows a rendered analytics report shows: in the tabular
\* report the "- **" lines below the heading "## Data (...)", in the
\* time-series report the "## " sections, one per row.
RowsShown(fmt, lines) ==
    IF fmt = "report"
    THEN IF \E k \in 1..Len(lines) : StartsWith(lines[k], "## Data (")
         THEN LET k == CHOOSE j \in 1..Len(lines) : StartsWith(lines[j], "## Data (")
              IN Cardinality({j \in (k + 1)..Len(lines) : StartsWith(lines[j], "- **")})
         ELSE 0
    ELSE Cardinality({j \in 1..Len(lines) : StartsWith(lines[j], "## ")})

\* C24: an analytics report, tabular or time series, whose response holds n
\* data rows shows exactly min(n, 50) rows in markdown and ends with the trailer
\* "...and (n-50) more rows" if and only if n > 50.
C24_ReportRowCap ==
    (fpc = "out" /\ fin.fmt \in {"report", "bytime"}) =>
        LET n == Len(Get(fin.arg, "data", <<>>))
        IN /\ RowsShown(fin.fmt, fout) = (IF n < 50 THEN n ELSE 50)
           /\ HasTrailer(fout) <=> n > 50
           /\ n > 50 => fout[Len(fout)] = "*...and " \o ToString(n - 50) \o " more rows*"

JsonListKey(o) ==
    CASE o \in ListingOps -> ListingInfo(o).json
      [] o = "metrika_get_counters" -> "counters"
      [] o = "metrika_get_goals" -> "goals"

\* A listing operation returned its JSON reply.
JsonListed ==
    /\ pc = "done"
    /\ op \in ListingOps \cup {"metrika_get_counters", "metrika_get_goals"}
    /\ ret.kind = "str"
    /\ ret.form = "json"

\* C26: in the JSON reply of every listing operation (campaigns, ad groups,
\* ads, keywords, counters, goals) the "total" equals the number of items of
\* the list returned in the same object.
C26_TotalCountsItems ==
    JsonListed =>
        LET loaded == LoadsListing(ret.lines, JsonListKey(op))
        IN /\ loaded # <<>>
           /\ loaded.total = ToString(Len(loaded.items))

\* A batch management operation was answered with per-item results and returned
\* its summary.
BatchAnswered ==
    /\ pc = "done"
    /\ op \in BatchOps
    /\ Answered(200)
    /\ resp.body.shape = "object"
    /\ ret.kind = "str"
    /\ ret.lines # <<>>

\* The vendor's per-item results of the batch operation answered.
BatchResults == DirectResults(resp.body, BatchInfo(op).key)

\* The per-item results that carry Errors.
WithErrors == {i \in 1..Len(BatchResults) : "Errors" \in DOMAIN BatchResults[i]}

\* C27: in every batch management operation an item whose result carries
\* Errors is not counted in "Successfully <verb> N ...": the count N is a
\* number of results without Errors, so N plus the number of results with
\* Errors never exceeds the number of results.
C27_SuccessExcludesErrors ==
    BatchAnswered =>
        \E n \in 0..Len(BatchResults) :
            /\ ret.lines[1] = BatchInfo(op).pre \o ToString(n) \o BatchInfo(op).post
            /\ n + Cardinality(WithErrors) <= Len(BatchResults)

\* The updatable fields of the text-ad update supplied: present and not empty.
SuppliedAdFields == {f \in {"title", "title2", "text", "href"} : TruthyStr(params[f])}

\* The text-ad update ended with the sentence for an empty update, nothing sent.
NothingToUpdate ==
    /\ pc = "done"
    /\ sent = <<>>
    /\ ret = StrResult("text", <<"No fields specified for update.">>)

\* The text-ad update sent one request, an update of the ad whose TextAd holds
\* exactly the supplied fields.
OneAdUpdateSent ==
    /\ Len(sent) = 1
    /\ sent[1].json.method = "update"
    /\ DOMAIN sent[1].json.params = {"Ads"}
    /\ Len(sent[1].json.params["Ads"]) = 1
    /\ LET ad == sent[1].json.params["Ads"][1]
       IN /\ DOMAIN ad = {"Id", "TextAd"}
          /\ ad["Id"] = params.ad_id
          /\ DOMAIN ad["TextAd"] = {FieldPath(op, f)[4] : f \in SuppliedAdFields}
          /\ \A f \in SuppliedAdFields : ad["TextAd"][FieldPath(op, f)[4]] = params[f][1]

\* C28 as stated: a text-ad update without any updatable field returns exactly
\* "No fields specified for update." and sends nothing, with or without a
\* token; with at least one field it sends exactly one update request that
\* holds only the supplied fields.
C28_AsStated ==
    op = "direct_update_ad" =>
        IF SuppliedAdFields = {} THEN NothingToUpdate ELSE OneAdUpdateSent

\* C28: a text-ad update without any updatable field returns exactly "No fields
\* specified for update." and sends nothing, with or without a token; with at
\* least one field and an advertising token configured it sends exactly one
\* update request that holds only the supplied fields, and without a token it
\* sends nothing.
C28_TextAdUpdate ==
    op = "direct_update_ad" =>
        IF SuppliedAdFields = {} THEN NothingToUpdate
        ELSE IF ResolvedToken # "" THEN OneAdUpdateSent
        ELSE sent = <<>>

\* Both cases happened: an update of an empty title alone ended without a
\* request though a token was there, or an update of title and text was sent.
C28_Witness ==
    /\ op = "direct_update_ad"
    /\ ResolvedToken # ""
    /\ pc = "done"
    /\ \/ params.title = Some("") /\ params.text = None /\ NothingToUpdate
       \/ Cardinality(SuppliedAdFields) = 2 /\ OneAdUpdateSent

\* Some item of keyword_bids has no keyword_id.
LacksKeywordId ==
    \E i \in 1..Len(params.keyword_bids) : "keyword_id" \notin DOMAIN params.keyword_bids[i]

\* The bid setting ended on the missing key, nothing sent.
EndedOnKeyError ==
    /\ pc = "done"
    /\ sent = <<>>
    /\ ret.kind = "str"
    /\ ret.lines # <<>>
    /\ StartsWith(ret.lines[1], "Unexpected error: KeyError")

\* The vendor item holds the bid under key exactly when the input item gives a
\* non-zero bid under field, and then the bid converted to micros.
BidEntry(item, kb, key, field) ==
    IF Get(kb, field, 0) # 0
    THEN key \in DOMAIN item /\ item[key] \in ToMicros(kb[field])
    ELSE key \notin DOMAIN item

\* One request was sent: a "set" with one vendor item per input item, in the
\* order of the input.
OneBidsRequestSent ==
    /\ Len(sent) = 1
    /\ sent[1].json.method = "set"
    /\ DOMAIN sent[1].json.params = {"KeywordBids"}
    /\ LET items == sent[1].json.params["KeywordBids"]
           kbs == params.keyword_bids
       IN /\ Len(items) = Len(kbs)
          /\ \A i \in 1..Len(kbs) :
               /\ DOMAIN items[i] \subseteq {"KeywordId", "SearchBid", "NetworkBid"}
               /\ items[i]["KeywordId"] = kbs[i]["keyword_id"]
               /\ BidEntry(items[i], kbs[i], "SearchBid", "search_bid")
               /\ BidEntry(items[i], kbs[i], "NetworkBid", "network_bid")

\* C30 as stated: if an item of keyword_bids lacks keyword_id nothing is sent
\* and the result begins "Unexpected error: KeyError"; if every item has it,
\* exactly one request is sent, with one vendor item per input item in input
\* order and a bid entry only for each non-zero bid given.
C30_AsStated ==
    op = "direct_set_keyword_bids" =>
        IF LacksKeywordId THEN EndedOnKeyError ELSE OneBidsRequestSent

\* C30: if an item of keyword_bids lacks keyword_id nothing is sent and the
\* result begins "Unexpected error: KeyError"; if every item has it and an
\* advertising token is configured, exactly one request is sent, with one
\* vendor item per input item in input order and a bid entry only for each
\* non-zero bid given; without a token nothing is sent.
C30_KeywordBids ==
    op = "direct_set_keyword_bids" =>
        IF LacksKeywordId THEN EndedOnKeyError
        ELSE IF ResolvedToken # "" THEN OneBidsRequestSent
        ELSE sent = <<>>

\* Both cases happened with a token configured: a second item without
\* keyword_id ended the call before any request, or two items went out in one
\* request, the first without any bid.
C30_Witness ==
    /\ op = "direct_set_keyword_bids"
    /\ ResolvedToken # ""
    /\ pc = "done"
    /\ Len(params.keyword_bids) = 2
    /\ \/ LacksKeywordId /\ EndedOnKeyError
       \/ ~LacksKeywordId /\ OneBidsRequestSent

====
